---- MODULE Spec2Model ----
(***************************************************************************)
(* LeanIX survey creator: the survey schema (leanix_survey_models.py), the *)
(* validator (validate_survey.py), the LeanIX client (leanix_client.py)    *)
(* and the REST endpoints (api.py).                                        *)
(*                                                                         *)
(* Values.  Every Python/JSON value is a record [t, v] whose tag t names   *)
(* the Python type: "str", "null" (None), "bool", "int", "list", "dict",   *)
(* "date" (datetime.date), "enum" (an Enum member) and "model" (a          *)
(* BaseModel instance).  A string is the sequence of its symbols; a symbol *)
(* is one character, or a whole word where only equality matters.          *)
(***************************************************************************)
EXTENDS Integers, Sequences, FiniteSets, TLC

\* the pipeline: the input text, the UI-collected values, and what each step
\* produced
VARIABLES doc, language, fact_sheet_type, due_date, vres, poll, payload, call

\* the result of validating the validated survey's JSON form again, and the
\* answer of POST /api/validate for the text
VARIABLES revalidated, validate_response

\* the REST endpoints: the request (its handler, its body, its query
\* parameters), the transport's behaviour for each submission, the handler's
\* position and locals, what the transport was handed, and the response
VARIABLES endpoint, requests, fail_fast, config, transport, pc, index, results,
          assembled, sent, response

pipeVars == <<doc, language, fact_sheet_type, due_date, vres, poll, payload, call,
              revalidated, validate_response>>
apiVars == <<endpoint, requests, fail_fast, config, transport, pc, index, results,
             assembled, sent, response>>

\* GET /api/surveys/{poll_id}: whether the deployment runs with
\* CACHE_ENABLED=true, the entries of app.state.poll_cache, the clock, the
\* requests in flight (their parameters, the transport's behaviour for each,
\* the handler's position and answer), and the calls the handlers made to
\* the transport and to the cache
VARIABLES CACHE_ENABLED, poll_cache, now, gets, transport_log, cache_log

getVars == <<CACHE_ENABLED, poll_cache, now, gets, transport_log, cache_log>>

\* a LeanIXClient: the clock time.time() reads, the client's cached token
\* and its expiry, and the last request made with the client
VARIABLES clock, client, client_call

clientVars == <<clock, client, client_call>>

\* the UI: st.session_state, the last create request handed to the backend,
\* and the last button pressed with the text it found
VARIABLES session_state, backend_request, ui_event

uiVars == <<session_state, backend_request, ui_event>>

\* concurrent callers of validation and assembly: the SurveyInput objects
\* that exist and each caller's frame
VARIABLES heap, frames

concVars == <<heap, frames>>
svcVars == <<getVars, clientVars, uiVars, concVars>>
vars == <<pipeVars, apiVars, svcVars>>

(***************************************************************************)
(* Bounds of the enumerated inputs.                                        *)
(***************************************************************************)
MaxTitleLen == 3
MaxOptions == 1
MaxQuestions == 2

(***************************************************************************)
(* Value constructors.                                                     *)
(***************************************************************************)
Str(s) == [t |-> "str", v |-> s]
W(word) == [t |-> "str", v |-> <<word>>]
None == [t |-> "null", v |-> 0]
BoolV(b) == [t |-> "bool", v |-> b]
IntV(i) == [t |-> "int", v |-> i]
List(s) == [t |-> "list", v |-> s]
Dict(f) == [t |-> "dict", v |-> f]
Date(y, m, d) == [t |-> "date", v |-> <<y, m, d>>]
EnumMember(c, s) == [t |-> "enum", v |-> [cls |-> c, value |-> s]]
Model(c, f) == [t |-> "model", v |-> [cls |-> c, f |-> f]]
EmptyObj == <<>>

\* str(i) for the list indexes that occur in error locations
IndexStr(i) == <<"0", "1", "2", "3", "4", "5", "6", "7", "8", "9">>[i + 1]

\* Python truthiness of a value: `not v` is ~Truthy(v)
Truthy(v) ==
  CASE v.t = "null" -> FALSE
    [] v.t = "bool" -> v.v
    [] v.t = "int" -> v.v # 0
    [] v.t = "str" -> Len(v.v) > 0
    [] v.t = "list" -> Len(v.v) > 0
    [] v.t = "dict" -> DOMAIN v.v # {}
    [] OTHER -> TRUE

\* a date written day first: DD-MM-YYYY
IsoFormatDayFirst(d) ==
  <<IndexStr(d[3] \div 10), IndexStr(d[3] % 10), "-",
    IndexStr(d[2] \div 10), IndexStr(d[2] % 10), "-",
    IndexStr((d[1] \div 1000) % 10), IndexStr((d[1] \div 100) % 10),
    IndexStr((d[1] \div 10) % 10), IndexStr(d[1] % 10)>>

\* date.isoformat(): YYYY-MM-DD, one symbol per character
IsoFormat(d) ==
  <<IndexStr((d[1] \div 1000) % 10), IndexStr((d[1] \div 100) % 10),
    IndexStr((d[1] \div 10) % 10), IndexStr(d[1] % 10), "-",
    IndexStr(d[2] \div 10), IndexStr(d[2] % 10), "-",
    IndexStr(d[3] \div 10), IndexStr(d[3] % 10)>>

\* the <<year, month, day>> a string of the form YYYY-MM-DD denotes, <<>>
\* when the string has another form or names no day of the calendar
ParseIsoDate(s) ==
  LET IsDigit(ch) == \E i \in 0..9 : IndexStr(i) = ch
      Val(ch) == CHOOSE i \in 0..9 : IndexStr(i) = ch
      Year == 1000 * Val(s[1]) + 100 * Val(s[2]) + 10 * Val(s[3]) + Val(s[4])
      Month == 10 * Val(s[6]) + Val(s[7])
      Day == 10 * Val(s[9]) + Val(s[10])
      Leap == Year % 4 = 0 /\ (Year % 100 # 0 \/ Year % 400 = 0)
      DaysIn == IF Month = 2 THEN (IF Leap THEN 29 ELSE 28)
                ELSE IF Month \in {4, 6, 9, 11} THEN 30 ELSE 31
  IN IF /\ Len(s) = 10
        /\ s[5] = "-" /\ s[8] = "-"
        /\ \A i \in {1, 2, 3, 4, 6, 7, 9, 10} : IsDigit(s[i])
        /\ Year >= 1 /\ Month \in 1..12 /\ Day \in 1..DaysIn
     THEN <<Year, Month, Day>>
     ELSE <<>>

\* dict.get(key): the value under key, None when the key is missing
DictGet(f, key) == IF key \in DOMAIN f THEN f[key] ELSE None

(***************************************************************************)
(* str.strip(): remove leading and trailing whitespace.                    *)
(***************************************************************************)
Whitespace == {" ", "\t", "\n", "\r"}

RECURSIVE LStrip(_)
LStrip(s) ==
  IF s = <<>> THEN <<>>
  ELSE IF Head(s) \in Whitespace THEN LStrip(Tail(s)) ELSE s

RECURSIVE RStrip(_)
RStrip(s) ==
  IF s = <<>> THEN <<>>
  ELSE IF s[Len(s)] \in Whitespace THEN RStrip(SubSeq(s, 1, Len(s) - 1)) ELSE s

Strip(s) == RStrip(LStrip(s))

(***************************************************************************)
(* Enumerations.                                                           *)
(***************************************************************************)
SubscriptionType == {"RESPONSIBLE", "OBSERVER", "ACCOUNTABLE", "ALL"}
AllowedPermissionStatus ==
  {"ACTIVE_ONLY", "ACTIVE_AND_INVITED", "ACTIVE_AND_INVITED_AND_CONTACTS"}
DateFilterType ==
  {"POINT", "RANGE", "TODAY", "END_OF_MONTH", "END_OF_YEAR", "RANGE_STARTS",
   "RANGE_ENDS"}
FacetFilterOperator == {"AND", "OR", "NOR"}

\* one set of values shared by every enumeration
EnumValuesMerged(c) ==
  SubscriptionType \cup AllowedPermissionStatus \cup DateFilterType
    \cup FacetFilterOperator

EnumValues(c) ==
  CASE c = "SubscriptionType" -> SubscriptionType
    [] c = "AllowedPermissionStatus" -> AllowedPermissionStatus
    [] c = "DateFilterType" -> DateFilterType
    [] c = "FacetFilterOperator" -> FacetFilterOperator

(***************************************************************************)
(* Field declarations.  A field is [name, alias, ty, req, minlen]: its     *)
(* attribute name, its alias (the name itself when none is declared), its  *)
(* annotated type, whether it is required (Field(...)) or defaults to None *)
(* (T | None = None), and its min_length constraint (0 when none).         *)
(***************************************************************************)
TStr == [k |-> "str"]
TInt == [k |-> "int"]
TBool == [k |-> "bool"]
TDate == [k |-> "date"]
TDictAny == [k |-> "dict_any"]
TDictStr == [k |-> "dict_str"]
TEnum(c) == [k |-> "enum", c |-> c]
TModel(c) == [k |-> "model", c |-> c]
TList(ty) == [k |-> "list", of |-> ty]

Req(name, alias, ty) ==
  [name |-> name, alias |-> alias, ty |-> ty, req |-> TRUE, minlen |-> 0]
Opt(name, alias, ty) ==
  [name |-> name, alias |-> alias, ty |-> ty, req |-> FALSE, minlen |-> 0]
ReqMin(name, alias, ty, n) ==
  [name |-> name, alias |-> alias, ty |-> ty, req |-> TRUE, minlen |-> n]

ElementPropertyFields == << Req("name", "name", TStr) >>

FactSheetElementFields ==
  << Opt("type", "type", TStr),
     Opt("tag_group_id", "tagGroupId", TStr),
     Opt("subscription", "subscription", TDictAny),
     Opt("fact_sheet_field_name", "factSheetFieldName", TStr),
     Opt("fact_sheet_field_type", "factSheetFieldType", TStr),
     Opt("tag_group_mode", "tagGroupMode", TStr),
     Opt("fact_sheet_field_view_type", "factSheetFieldViewType", TStr),
     Opt("properties", "properties", TList(TModel("ElementProperty"))) >>

DependencySettingsFields ==
  << Req("parent_id", "parentId", TStr),
     Req("condition", "condition", TDictAny) >>

QuestionSettingsFields ==
  << Opt("metrics", "metrics", TDictStr),
     Opt("version", "version", TInt),
     Opt("hide_in_results", "hideInResults", TBool),
     Opt("is_conditional", "isConditional", TBool),
     Opt("fs_sections", "fsSections", TDictAny),
     Opt("formula", "formula", TStr),
     Opt("dependency", "dependency", TModel("DependencySettings")),
     Opt("is_mandatory", "isMandatory", TBool) >>

QuestionOptionFields ==
  << Req("id", "id", TStr),
     Req("label", "label", TStr),
     Opt("comment", "comment", TStr) >>

QuestionFields ==
  << Req("id", "id", TStr),
     Req("label", "label", TStr),
     Opt("descriptive_text", "descriptiveText", TStr),
     Req("type", "type", TStr),
     Opt("element", "element", TStr),
     Opt("options", "options", TList(TModel("QuestionOption"))),
     Opt("answer_options", "answerOptions", TStr),
     Opt("children", "children", TList(TModel("Question"))),
     Opt("powerfeature", "powerfeature", TBool),
     Opt("disabled", "disabled", TBool),
     Opt("fact_sheet_element", "factSheetElement", TModel("FactSheetElement")),
     Opt("settings", "settings", TModel("QuestionSettings")) >>

QuestionnaireFields ==
  << Req("questions", "questions", TList(TModel("Question"))) >>

DateFilterFields ==
  << Opt("from_date", "from", TDate),
     Opt("to_date", "to", TDate),
     Req("type", "type", TEnum("DateFilterType")) >>

SubscriptionFilterFields ==
  << Req("type", "type", TEnum("SubscriptionType")),
     Opt("role_id", "roleId", TStr) >>

FacetFilterFields ==
  << Opt("facet_key", "facetKey", TStr),
     Opt("keys", "keys", TList(TStr)),
     Opt("operator", "operator", TEnum("FacetFilterOperator")),
     Opt("date_filter", "dateFilter", TModel("DateFilter")),
     Opt("subscription_filter", "subscriptionFilter", TModel("SubscriptionFilter")),
     Opt("sub_filter", "subFilter", TList(TModel("FacetFilter"))) >>

QueryFilterFields ==
  << Opt("fs_type", "fsType", TStr),
     Opt("facet_filter", "facetFilter", TList(TModel("FacetFilter"))),
     Opt("full_text_search_term", "fullTextSearchTerm", TStr) >>

FactSheetQueryFields ==
  << Opt("filter", "filter", TModel("QueryFilter")),
     Opt("ids", "ids", TList(TStr)) >>

UserRoleDetailsFields ==
  << Req("name", "name", TStr),
     Req("id", "id", TStr) >>

UserRoleFields ==
  << Req("subscription_type", "subscriptionType", TEnum("SubscriptionType")),
     Opt("role_details", "roleDetails", TList(TModel("UserRoleDetails"))) >>

UserQueryFields == << Req("roles", "roles", TList(TModel("UserRole"))) >>

\* the twelve optional fields SurveyInput and PollCreate share
SharedOptionalFields ==
  << Opt("introduction_text", "introductionText", TStr),
     Opt("introduction_subject", "introductionSubject", TStr),
     Opt("additional_fact_sheet_subject", "additionalFactSheetSubject", TStr),
     Opt("additional_fact_sheet_text", "additionalFactSheetText", TStr),
     Opt("additional_fact_sheet_check_enabled",
         "additionalFactSheetCheckEnabled", TBool),
     Opt("repeat_interval", "repeatInterval", TInt),
     Opt("time_frame", "timeFrame", TInt),
     Opt("send_change_notifications", "sendChangeNotifications", TBool),
     Opt("allowed_permission_status", "allowedPermissionStatus",
         TEnum("AllowedPermissionStatus")),
     Opt("dynamic_scope_check_enabled", "dynamicScopeCheckEnabled", TBool),
     Opt("fact_sheet_query", "factSheetQuery", TModel("FactSheetQuery")),
     Opt("user_query", "userQuery", TModel("UserQuery")) >>

SurveyInputFields ==
  << ReqMin("title", "title", TStr, 1),
     Req("questionnaire", "questionnaire", TModel("Questionnaire")) >>
  \o SharedOptionalFields

PollCreateFields ==
  << Req("title", "title", TStr),
     Req("language", "language", TStr),
     Req("fact_sheet_type", "factSheetType", TStr),
     Req("questionnaire", "questionnaire", TModel("Questionnaire")),
     Opt("due_date", "dueDate", TDate) >>
  \o SharedOptionalFields

Fields(c) ==
  CASE c = "ElementProperty" -> ElementPropertyFields
    [] c = "FactSheetElement" -> FactSheetElementFields
    [] c = "DependencySettings" -> DependencySettingsFields
    [] c = "QuestionSettings" -> QuestionSettingsFields
    [] c = "QuestionOption" -> QuestionOptionFields
    [] c = "Question" -> QuestionFields
    [] c = "Questionnaire" -> QuestionnaireFields
    [] c = "DateFilter" -> DateFilterFields
    [] c = "SubscriptionFilter" -> SubscriptionFilterFields
    [] c = "FacetFilter" -> FacetFilterFields
    [] c = "QueryFilter" -> QueryFilterFields
    [] c = "FactSheetQuery" -> FactSheetQueryFields
    [] c = "UserRoleDetails" -> UserRoleDetailsFields
    [] c = "UserRole" -> UserRoleFields
    [] c = "UserQuery" -> UserQueryFields
    [] c = "SurveyInput" -> SurveyInputFields
    [] c = "PollCreate" -> PollCreateFields

\* the classes whose Config sets populate_by_name = True
PopulateByName ==
  {"FactSheetElement", "DependencySettings", "QuestionSettings", "Question",
   "DateFilter", "SubscriptionFilter", "FacetFilter", "QueryFilter",
   "UserRole", "SurveyInput", "PollCreate"}

FieldNames(c) == {Fields(c)[i].name : i \in DOMAIN Fields(c)}
FieldByName(c, n) ==
  Fields(c)[CHOOSE i \in DOMAIN Fields(c) : Fields(c)[i].name = n]
FieldByAlias(c, a) ==
  Fields(c)[CHOOSE i \in DOMAIN Fields(c) : Fields(c)[i].alias = a]

(***************************************************************************)
(* Validators declared on the classes.                                     *)
(***************************************************************************)
ChoiceTypes == {W("singlechoice"), W("multiplechoice")}

\* Question.validate_options_for_choice_questions (field_validator "options")
\* data is info.data: the fields declared before `options` that validated
validate_options_for_choice_questions(v, data) ==
  IF DictGet(data, "type") \in ChoiceTypes /\ ~Truthy(v)
  THEN [ok |-> FALSE, val |-> v, msg |-> "Value error, Questions must have options"]
  ELSE [ok |-> TRUE, val |-> v, msg |-> ""]

\* validate_title without the assignment of the stripped value
validate_title_unstripped(v) ==
  IF ~Truthy(Str(Strip(v.v)))
  THEN [ok |-> FALSE, val |-> v,
        msg |-> "Value error, Title cannot be empty or whitespace only"]
  ELSE [ok |-> TRUE, val |-> v, msg |-> ""]

\* SurveyInput.validate_title (field_validator "title")
validate_title(v) ==
  IF ~Truthy(Str(Strip(v.v)))
  THEN [ok |-> FALSE, val |-> v,
        msg |-> "Value error, Title cannot be empty or whitespace only"]
  ELSE [ok |-> TRUE, val |-> Str(Strip(v.v)), msg |-> ""]

\* a model validator that accepts every question
accept_any_question(self) == [ok |-> TRUE, msg |-> ""]

\* a validator that demands options of every question, whatever its type
check_all_questions_have_options(self) ==
  IF ~Truthy(self.v.f["options"])
  THEN [ok |-> FALSE,
        msg |-> "Value error, Questions must have at least one option"]
  ELSE [ok |-> TRUE, msg |-> ""]

\* Question.check_choice_questions_have_options (model_validator, mode after)
check_choice_questions_have_options(self) ==
  IF self.v.f["type"] \in ChoiceTypes /\ ~Truthy(self.v.f["options"])
  THEN [ok |-> FALSE,
        msg |-> "Value error, Questions must have at least one option"]
  ELSE [ok |-> TRUE, msg |-> ""]

FieldValidator(c, name, v, data) ==
  CASE c = "Question" /\ name = "options" ->
         validate_options_for_choice_questions(v, data)
    [] c = "SurveyInput" /\ name = "title" -> validate_title(v)
    [] OTHER -> [ok |-> TRUE, val |-> v, msg |-> ""]

ModelValidator(c, self) ==
  IF c = "Question" THEN check_choice_questions_have_options(self)
  ELSE [ok |-> TRUE, msg |-> ""]

(***************************************************************************)
(* Validation of a value against an annotated type, as BaseModel does it:  *)
(* fields in declaration order, each looked up under its alias (and under  *)
(* its name when populate_by_name is set), unknown keys ignored, a field   *)
(* that is not supplied takes its default None without being validated,    *)
(* every error of every field collected, and the model validator run only  *)
(* when no field failed.  The result is [errs, val]; errs is the sequence  *)
(* of [loc, msg] entries in the order e.errors() lists them, loc being the *)
(* str() of each location item.                                            *)
(***************************************************************************)
Ok(v) == [errs |-> <<>>, val |-> v]
Fail(loc, msg) == [errs |-> <<[loc |-> loc, msg |-> msg]>>, val |-> None]
Errors(errs) == [errs |-> errs, val |-> None]

RECURSIVE ValidateType(_, _, _)
RECURSIVE ValidateList(_, _, _, _, _)
RECURSIVE ListItem(_, _, _, _, _, _)
RECURSIVE ValidateModel(_, _, _)
RECURSIVE FieldAt(_, _, _, _)
RECURSIVE FieldErrors(_, _)

\* the list built from the items, or the errors of all of them
ListResult(r) == IF r.errs = <<>> THEN Ok(List(r.val)) ELSE Errors(r.errs)

\* the items collected last first
ListItemReversed(ty, items, loc, i, acc, r) ==
  IF r.errs = <<>>
  THEN ValidateList(ty, items, loc, i + 1,
                    [errs |-> acc.errs, val |-> <<r.val>> \o acc.val])
  ELSE ValidateList(ty, items, loc, i + 1,
                    [errs |-> acc.errs \o r.errs, val |-> acc.val])

\* an item that does not validate left out of the list
ListItemSkipInvalid(ty, items, loc, i, acc, r) ==
  IF r.errs = <<>>
  THEN ValidateList(ty, items, loc, i + 1,
                    [errs |-> acc.errs, val |-> Append(acc.val, r.val)])
  ELSE ValidateList(ty, items, loc, i + 1, acc)

\* the items after item i, whose result is r; acc is the [errs, val] of the
\* items before
ListItem(ty, items, loc, i, acc, r) ==
  IF r.errs = <<>>
  THEN ValidateList(ty, items, loc, i + 1,
                    [errs |-> acc.errs, val |-> Append(acc.val, r.val)])
  ELSE ValidateList(ty, items, loc, i + 1,
                    [errs |-> acc.errs \o r.errs, val |-> acc.val])

\* the items of a list from index i on
ValidateList(ty, items, loc, i, acc) ==
  IF i > Len(items) THEN acc
  ELSE ListItem(ty, items, loc, i, acc,
                ValidateType(ty, items[i], Append(loc, IndexStr(i - 1))))

ValidateType(ty, v, loc) ==
  CASE ty.k = "str" ->
         IF v.t = "str" THEN Ok(v) ELSE Fail(loc, "Input should be a valid string")
    [] ty.k = "int" ->
         IF v.t = "int" THEN Ok(v) ELSE Fail(loc, "Input should be a valid integer")
    [] ty.k = "bool" ->
         IF v.t = "bool" THEN Ok(v) ELSE Fail(loc, "Input should be a valid boolean")
    [] ty.k = "date" ->
         IF v.t = "date" THEN Ok(v)
         ELSE IF v.t = "str" /\ ParseIsoDate(v.v) # <<>>
         THEN Ok([t |-> "date", v |-> ParseIsoDate(v.v)])
         ELSE Fail(loc, "Input should be a valid date")
    [] ty.k = "dict_any" ->
         IF v.t = "dict" THEN Ok(v) ELSE Fail(loc, "Input should be a valid dictionary")
    [] ty.k = "dict_str" ->
         IF v.t # "dict" THEN Fail(loc, "Input should be a valid dictionary")
         ELSE IF \A key \in DOMAIN v.v : v.v[key].t = "str" THEN Ok(v)
         ELSE Fail(loc, "Input should be a valid string")
    [] ty.k = "enum" ->
         IF v.t = "enum" /\ v.v.cls = ty.c THEN Ok(v)
         ELSE IF v.t = "str" /\ Len(v.v) = 1 /\ v.v[1] \in EnumValues(ty.c)
         THEN Ok(EnumMember(ty.c, v.v[1]))
         ELSE Fail(loc, "Input should be a member of the enumeration")
    [] ty.k = "list" ->
         IF v.t # "list" THEN Fail(loc, "Input should be a valid list")
         ELSE ListResult(ValidateList(ty.of, v.v, loc, 1, [errs |-> <<>>, val |-> <<>>]))
    [] ty.k = "model" -> ValidateModel(ty.c, v, loc)

\* a field looked up under its alias only
LookupKeyAliasOnly(c, fd, obj) == IF fd.alias \in DOMAIN obj THEN fd.alias ELSE ""

\* the key under which obj supplies field fd of class c, "" when it does not
LookupKey(c, fd, obj) ==
  IF fd.alias \in DOMAIN obj THEN fd.alias
  ELSE IF c \in PopulateByName /\ fd.name \in DOMAIN obj THEN fd.name
  ELSE ""

\* the outcome fv of a field validator as a validation result
FromFieldValidator(fv, loc) == IF fv.ok THEN Ok(fv.val) ELSE Fail(loc, fv.msg)

\* after the type check r of a field: min_length, then the field validator
AfterType(c, fd, r, loc, data) ==
  IF r.errs # <<>> THEN r
  ELSE IF fd.minlen > 0 /\ Len(r.val.v) < fd.minlen
  THEN Fail(loc, "String should have at least 1 character")
  ELSE FromFieldValidator(FieldValidator(c, fd.name, r.val, data), loc)

\* a supplied field: None is a value of every T | None
ValidateField(c, fd, v, loc, data) ==
  IF ~fd.req /\ v.t = "null"
  THEN FromFieldValidator(FieldValidator(c, fd.name, None, data), loc)
  ELSE AfterType(c, fd, ValidateType(fd.ty, v, loc), loc, data)

\* a field that is not supplied taking None, required or not
FieldResultDefaulting(c, fd, key, obj, loc, data) ==
  IF key # "" THEN ValidateField(c, fd, obj[key], Append(loc, key), data)
  ELSE Ok(None)

\* field fd, supplied under key ("" when it is not supplied: an error for a
\* required field, the default None otherwise)
FieldResult(c, fd, key, obj, loc, data) ==
  IF key # "" THEN ValidateField(c, fd, obj[key], Append(loc, key), data)
  ELSE IF fd.req THEN Fail(Append(loc, fd.alias), "Field required")
  ELSE Ok(None)

\* the values of the fields that validated among the results rs, by name
FieldData(c, rs) ==
  [n \in {Fields(c)[i].name : i \in {j \in DOMAIN rs : rs[j].errs = <<>>}} |->
     rs[CHOOSE i \in DOMAIN rs : Fields(c)[i].name = n].val]

\* the result of field i of class c; info.data is the values of the fields
\* declared before it that validated
FieldAt(c, obj, loc, i) ==
  FieldResult(c, Fields(c)[i], LookupKey(c, Fields(c)[i], obj), obj, loc,
              FieldData(c, [j \in 1..(i - 1) |-> FieldAt(c, obj, loc, j)]))

\* the errors of the first field that failed only
FieldErrorsFirstOnly(rs, i) ==
  IF i > Len(rs) THEN <<>>
  ELSE IF rs[i].errs # <<>> THEN rs[i].errs
  ELSE FieldErrors(rs, i + 1)

\* the errors of the fields from field i on, in declaration order
FieldErrors(rs, i) ==
  IF i > Len(rs) THEN <<>> ELSE rs[i].errs \o FieldErrors(rs, i + 1)

\* the fields of class c, from their results rs in declaration order: every
\* error, and the values of the fields that validated
ValidateFields(c, rs) == [errs |-> FieldErrors(rs, 1), data |-> FieldData(c, rs)]

\* a model validator's error reported at the options field
FromModelValidatorAtOptions(self, mv, loc) ==
  IF mv.ok THEN Ok(self) ELSE Fail(Append(loc, "options"), mv.msg)

\* the instance, when the model validator accepts it
FromModelValidator(self, mv, loc) == IF mv.ok THEN Ok(self) ELSE Fail(loc, mv.msg)

\* the instance built from the validated fields r, then the model validator
Construct(c, r, loc) ==
  IF r.errs # <<>> THEN Errors(r.errs)
  ELSE FromModelValidator(Model(c, r.data), ModelValidator(c, Model(c, r.data)), loc)

\* a model that refuses the keys it does not declare
ValidateModelForbidExtra(c, v, loc) ==
  IF v.t = "model" /\ v.v.cls = c THEN Ok(v)
  ELSE IF v.t # "dict" THEN Fail(loc, "Input should be a valid dictionary or instance")
  ELSE IF \E key \in DOMAIN v.v :
            \A i \in DOMAIN Fields(c) :
              key \notin {Fields(c)[i].alias, Fields(c)[i].name}
  THEN Fail(loc, "Extra inputs are not permitted")
  ELSE Construct(c, ValidateFields(c, [i \in DOMAIN Fields(c) |->
                                          FieldAt(c, v.v, loc, i)]), loc)

ValidateModel(c, v, loc) ==
  IF v.t = "model" /\ v.v.cls = c THEN Ok(v)
  ELSE IF v.t # "dict" THEN Fail(loc, "Input should be a valid dictionary or instance")
  ELSE Construct(c, ValidateFields(c, [i \in DOMAIN Fields(c) |->
                                          FieldAt(c, v.v, loc, i)]), loc)

\* SurveyInput.model_validate(data)
model_validate(c, data) == ValidateModel(c, data, <<>>)

(***************************************************************************)
(* validate_survey.py.  The input text is [wellformed, json]: whether it   *)
(* is well-formed JSON and, when it is, the value json.loads returns.      *)
(* The result models the returned tuple (is_valid, survey_input,           *)
(* error_message): kind tells which branch built the message, and errs is  *)
(* the list the message renders, one "  * loc: msg" line per entry with    *)
(* loc joined by " -> ".                                                   *)
(***************************************************************************)
Text(j) == [wellformed |-> TRUE, json |-> j]
Malformed == [wellformed |-> FALSE, json |-> None]

\* the returned tuple for the outcome r of SurveyInput.model_validate
ValidationOutcome(r) ==
  IF r.errs = <<>>
  THEN [valid |-> TRUE, survey |-> r.val, kind |-> "", errs |-> <<>>]
  ELSE [valid |-> FALSE, survey |-> None, kind |-> "Validation errors",
        errs |-> r.errs]

validate_json_string(json_string) ==
  IF ~json_string.wellformed
  THEN [valid |-> FALSE, survey |-> None, kind |-> "Invalid JSON", errs |-> <<>>]
  ELSE ValidationOutcome(model_validate("SurveyInput", json_string.json))

NotValidated == [valid |-> FALSE, survey |-> None, kind |-> "not run", errs |-> <<>>]

(***************************************************************************)
(* The enumerated input documents.                                         *)
(***************************************************************************)
SeqsUpTo(S, n) == UNION {[1..k -> S] : k \in 0..n}

TitleAlphabet == {" ", "T"}
Titles == SeqsUpTo(TitleAlphabet, MaxTitleLen)

Option1 == Dict([id |-> W("a"), label |-> W("A")])
OptionLists == {List(s) : s \in SeqsUpTo({Option1}, MaxOptions)}

QuestionTypes == {"text", "singlechoice", "multiplechoice"}
BaseQuestion(ty) == [id |-> W("q1"), label |-> W("L"), type |-> W(ty)]

\* questions without children: options absent, null, or a list
Leaves ==
  {Dict(BaseQuestion(ty)) : ty \in QuestionTypes}
  \cup {Dict(BaseQuestion(ty) @@ [options |-> o]) :
          ty \in QuestionTypes, o \in OptionLists \cup {None}}

\* a question whose settings carry a null model field and a null inside the
\* opaque fsSections map
SettingsLeaf ==
  Dict(BaseQuestion("text")
       @@ [settings |-> Dict([fsSections |-> Dict([section |-> None]),
                               formula |-> None,
                               isMandatory |-> BoolV(TRUE)])])

\* questions with one child
Parents ==
  {Dict(BaseQuestion(ty) @@ [children |-> List(<<c>>)]) :
     ty \in {"text", "singlechoice"}, c \in Leaves}
  \cup {Dict(BaseQuestion(ty) @@ [options |-> List(<<Option1>>),
                                  children |-> List(<<c>>)]) :
          ty \in {"text", "singlechoice"}, c \in Leaves}

TopLeaves ==
  {Dict(BaseQuestion("text")),
   Dict(BaseQuestion("singlechoice")),
   Dict(BaseQuestion("singlechoice") @@ [options |-> List(<<Option1>>)]),
   Dict(BaseQuestion("multiplechoice") @@ [options |-> List(<<>>)])}

QuestionLists ==
  {<<q>> : q \in Leaves \cup Parents \cup {SettingsLeaf}}
  \cup SeqsUpTo(TopLeaves, MaxQuestions)

Questionnaires == {Dict([questions |-> List(s)]) : s \in QuestionLists}

OptionalValues ==
  [introductionText |-> W("Welcome!"),
   introductionSubject |-> W("Subject"),
   additionalFactSheetSubject |-> W("More"),
   additionalFactSheetText |-> W("Text"),
   additionalFactSheetCheckEnabled |-> BoolV(FALSE),
   repeatInterval |-> IntV(5),
   timeFrame |-> IntV(0),
   sendChangeNotifications |-> BoolV(TRUE),
   allowedPermissionStatus |-> W("ACTIVE_AND_INVITED"),
   dynamicScopeCheckEnabled |-> BoolV(TRUE),
   factSheetQuery |-> Dict([ids |-> List(<<W("fs1")>>)]),
   userQuery |-> Dict([roles |-> List(<<Dict([subscriptionType |-> W("RESPONSIBLE")])>>)])]

OptionalKeys == DOMAIN OptionalValues
OptionalKeySets ==
  {{}} \cup {{k} : k \in OptionalKeys} \cup {OptionalKeys \ {k} : k \in OptionalKeys}
  \cup {OptionalKeys}

SimpleQuestionnaire == Dict([questions |-> List(<<Dict(BaseQuestion("text"))>>)])
BadQuestionnaire == Dict([questions |-> List(<<Dict(BaseQuestion("singlechoice"))>>)])

TitleDocs ==
  {Dict([title |-> Str(ti), questionnaire |-> q]) :
     ti \in Titles, q \in {SimpleQuestionnaire, BadQuestionnaire}}
  \cup {Dict([questionnaire |-> SimpleQuestionnaire]),
        Dict([title |-> None, questionnaire |-> SimpleQuestionnaire])}

QuestionDocs ==
  {Dict([title |-> Str(ti), questionnaire |-> q]) :
     ti \in {<<"T">>, <<" ", "T">>, <<" ">>}, q \in Questionnaires}

OptionalDocs ==
  {Dict([title |-> Str(<<"T">>), questionnaire |-> SimpleQuestionnaire]
        @@ [k \in ks |-> OptionalValues[k]]) : ks \in OptionalKeySets}
  \cup {Dict([title |-> Str(<<"T">>), questionnaire |-> SimpleQuestionnaire,
              introductionText |-> None])}

\* further JSON values: deep question trees, texts that are no object,
\* documents without a required field, with several violations, with
\* snake_case names, with unknown keys, with each candidate string in each
\* enumerated position, with dates, and with empty option ids and labels
MoreDocs ==
  LET Base == [title |-> Str(<<"T">>), questionnaire |-> SimpleQuestionnaire]
      Q(id, ty, more) ==
        Dict([id |-> W(id), label |-> W("L"), type |-> W(ty)] @@ more)
      TwoOptions ==
        List(<<Dict([id |-> W("b"), label |-> W("B")]),
               Dict([id |-> W("a"), label |-> W("A")])>>)
      DeepLeaves ==
        {Q("q3", "text", EmptyObj),
         Q("q3", "multiplechoice", [options |-> TwoOptions]),
         Q("q3", "singlechoice", EmptyObj),
         Q("q3", "multiplechoice", [options |-> List(<<>>)]),
         Dict([id |-> W("q3"), type |-> W("text")]),
         Q("q3", "singlechoice", [options |-> List(<<Dict([label |-> W("A")])>>)]),
         Q("q3", "text",
           [settings |-> Dict([dependency |-> Dict([condition |-> Dict(EmptyObj)])])])}
      Deep(leaf) ==
        Dict([questions |->
          List(<<Q("q1", "text",
                   [children |->
                      List(<<Q("q2", "singlechoice",
                               [options |-> TwoOptions,
                                children |-> List(<<leaf>>)]),
                             Q("q4", "text", EmptyObj)>>)]),
                 Q("q5", "text", EmptyObj)>>)])
      Snake(key) == FieldByAlias("SurveyInput", key).name
      Candidates ==
        {W(x) : x \in SubscriptionType \cup AllowedPermissionStatus
                      \cup DateFilterType \cup FacetFilterOperator
                      \cup {"BOGUS", "responsible"}}
        \cup {Str(<<>>)}
      Facet(f) == [factSheetQuery |-> Dict([filter |-> Dict([facetFilter |-> List(<<Dict(f)>>)])])]
      Role(r) == [userQuery |-> Dict([roles |-> List(<<Dict(r)>>)])]
      EmptyNamed ==
        {Dict([id |-> Str(<<>>), label |-> W("A")]),
         Dict([id |-> W("a"), label |-> Str(<<>>)]),
         Dict([id |-> Str(<<>>), label |-> Str(<<>>)])}
  IN  {Dict([title |-> Str(<<"T">>), questionnaire |-> Deep(leaf)]) :
         leaf \in DeepLeaves}
      \cup {List(<<>>), None, W("text"), IntV(1)}
      \cup {Dict([title |-> Str(<<"T">>)] @@ [k \in ks |-> OptionalValues[k]]) :
              ks \in {{}, {"userQuery"}, OptionalKeys}}
      \cup {Dict([k \in ks |-> OptionalValues[k]]) : ks \in {{}, OptionalKeys}}
      \cup {Dict([questionnaire |-> SimpleQuestionnaire]
                 @@ [k \in OptionalKeys |-> OptionalValues[k]])}
      \cup {Dict([title |-> Str(ti), questionnaire |-> SimpleQuestionnaire]
                 @@ [allowedPermissionStatus |-> W("BOGUS")] @@ more) :
              ti \in {<<" ">>, <<"T">>},
              more \in {EmptyObj, [repeatInterval |-> W("soon")]}}
      \cup {Dict([allowedPermissionStatus |-> W("BOGUS"),
                  repeatInterval |-> W("soon")])}
      \cup {Dict(Base @@ (Snake(k) :> OptionalValues[k])) : k \in OptionalKeys}
      \cup {Dict(Base @@ [introductionText |-> W("Welcome!"),
                          introduction_text |-> W("Other")]),
            Dict([title |-> Str(<<"T">>),
                  questionnaire |->
                    Dict([questions |->
                      List(<<Q("q1", "text",
                               [descriptive_text |-> W("D"),
                                settings |-> Dict([is_mandatory |-> BoolV(TRUE)])])>>)]),
                  user_query |->
                    Dict([roles |->
                      List(<<Dict([subscription_type |-> W("OBSERVER")])>>)])]),
            Dict([title |-> Str(<<"T">>),
                  questionnaire |->
                    Dict([questions |->
                      List(<<Q("q1", "text",
                               [descriptiveText |-> W("D"),
                                settings |-> Dict([isMandatory |-> BoolV(TRUE)])])>>)])])}
      \cup {Dict(Base @@ [unknownField |-> W("x")]),
            Dict(Base @@ [unknownField |-> None] @@ Role([subscriptionType |-> W("ALL"),
                                                        extra |-> IntV(1)])),
            Dict([title |-> Str(<<" ", "T">>), unknownField |-> List(<<>>),
                  questionnaire |->
                    Dict([extra |-> BoolV(TRUE),
                          questions |->
                            List(<<Q("q1", "singlechoice",
                                     [extra |-> W("x"),
                                      options |->
                                        List(<<Dict([id |-> W("a"), label |-> W("A"),
                                                     extra |-> IntV(1)])>>)])>>)])]),
            Dict([title |-> Str(<<"T">>), unknownField |-> W("x"),
                  questionnaire |->
                    Dict([questions |->
                      List(<<Q("q1", "singlechoice", [extra |-> W("x")])>>)])])}
      \cup {Dict(Base @@ [allowedPermissionStatus |-> c]) : c \in Candidates}
      \cup {Dict(Base @@ Role([subscriptionType |-> c])) : c \in Candidates}
      \cup {Dict(Base @@ Facet([operator |-> c])) : c \in Candidates}
      \cup {Dict(Base @@ Facet([dateFilter |-> Dict([type |-> c])])) :
              c \in Candidates}
      \cup {Dict(Base @@ Facet([subscriptionFilter |-> Dict([type |-> c])])) :
              c \in Candidates}
      \cup {Dict(Base @@ Facet([dateFilter |->
                                  Dict([type |-> W("RANGE"),
                                        from |-> Str(d),
                                        to |-> Str(<<"2", "0", "2", "4", "-", "1", "2",
                                                    "-", "3", "1">>)])])) :
              d \in {<<"2", "0", "2", "4", "-", "0", "2", "-", "2", "9">>,
                     <<"2", "0", "2", "3", "-", "0", "2", "-", "2", "9">>,
                     <<"2", "9", "-", "0", "2", "-", "2", "0", "2", "4">>}}
      \cup {Dict([title |-> Str(<<"T">>),
                  questionnaire |->
                    Dict([questions |->
                      List(<<Q("q1", ty, [options |-> List(<<o>>)])>>)])]) :
              ty \in {"text", "singlechoice"}, o \in EmptyNamed}
      \cup {Dict([title |-> Str(<<"T">>),
                  questionnaire |->
                    Dict([questions |->
                      List(<<Dict([id |-> W("q1"), label |-> W("L"), type |-> ty]
                                  @@ more)>>)])]) :
              ty \in {W("hologram"), W("SingleChoice"), W("number"), Str(<<>>)},
              more \in {EmptyObj, [options |-> List(<<>>)], [options |-> None],
                        [children |->
                           List(<<Dict([id |-> W("q2"), label |-> W("L"),
                                        type |-> W("hologram")])>>)]}}

Docs == TitleDocs \cup QuestionDocs \cup OptionalDocs \cup MoreDocs

Languages == {W("en"), W("de")}
FactSheetTypes == {W("Application")}
DueDates == {None, Date(2024, 12, 31)}

(***************************************************************************)
(* BaseModel.model_dump(by_alias, exclude_none), in Python mode: a model   *)
(* becomes a dict keyed by alias or by name, without the fields that are   *)
(* None when exclude_none is set; lists and dicts are dumped item by item  *)
(* (the entries of a plain dict are kept whatever their value); every      *)
(* other value, a date or an Enum member included, stays the object it is. *)
(***************************************************************************)
RECURSIVE model_dump(_, _, _)
RECURSIVE DumpFields(_, _, _, _)

\* the entry of field fd with value v: none for an excluded None
DumpField(fd, v, by_alias, exclude_none) ==
  IF exclude_none /\ v = None THEN EmptyObj
  ELSE (IF by_alias THEN fd.alias ELSE fd.name) :> model_dump(v, by_alias, exclude_none)

\* the entries of the fields fds of an instance whose field values are f
DumpFields(fds, f, by_alias, exclude_none) ==
  IF fds = <<>> THEN EmptyObj
  ELSE DumpField(Head(fds), f[Head(fds).name], by_alias, exclude_none)
       @@ DumpFields(Tail(fds), f, by_alias, exclude_none)

model_dump(self, by_alias, exclude_none) ==
  CASE self.t = "model" ->
         Dict(DumpFields(Fields(self.v.cls), self.v.f, by_alias, exclude_none))
    [] self.t = "list" ->
         List([i \in DOMAIN self.v |-> model_dump(self.v[i], by_alias, exclude_none)])
    [] self.t = "dict" ->
         Dict([key \in DOMAIN self.v |->
                 model_dump(self.v[key], by_alias, exclude_none)])
    [] OTHER -> self

\* the JSON form of a dumped value: a date as its ISO string, an Enum member
\* as its value
RECURSIVE JsonMode(_)
JsonMode(v) ==
  CASE v.t = "date" -> Str(IsoFormat(v.v))
    [] v.t = "enum" -> W(v.v.value)
    [] v.t = "list" -> List([i \in DOMAIN v.v |-> JsonMode(v.v[i])])
    [] v.t = "dict" -> Dict([key \in DOMAIN v.v |-> JsonMode(v.v[key])])
    [] OTHER -> v

\* json.loads(self.model_dump_json(by_alias=..., exclude_none=...))
model_dump_json(self, by_alias, exclude_none) ==
  JsonMode(model_dump(self, by_alias, exclude_none))

(***************************************************************************)
(* PollCreate.from_survey_input: cls(title=..., language=..., ...), the    *)
(* keyword names being the aliases.  The result is [errs, val] of the      *)
(* PollCreate validation of those keywords.                                *)
(***************************************************************************)
\* the keywords, s being the attributes of survey_input
PollCreateKeywords(s, lang, fs_type, due) ==
      Dict([title |-> s["title"],
            language |-> lang,
            factSheetType |-> fs_type,
            questionnaire |-> s["questionnaire"],
            dueDate |-> due,
            introductionText |-> s["introduction_text"],
            introductionSubject |-> s["introduction_subject"],
            additionalFactSheetSubject |-> s["additional_fact_sheet_subject"],
            additionalFactSheetText |-> s["additional_fact_sheet_text"],
            additionalFactSheetCheckEnabled |-> s["additional_fact_sheet_check_enabled"],
            repeatInterval |-> s["repeat_interval"],
            timeFrame |-> s["time_frame"],
            sendChangeNotifications |-> s["send_change_notifications"],
            allowedPermissionStatus |-> s["allowed_permission_status"],
            dynamicScopeCheckEnabled |-> s["dynamic_scope_check_enabled"],
            factSheetQuery |-> s["fact_sheet_query"],
            userQuery |-> s["user_query"]])

\* from_survey_input with language and fact_sheet_type exchanged
from_survey_input_swapped(survey_input, lang, fs_type, due) ==
  model_validate("PollCreate",
                 PollCreateKeywords(survey_input.v.f, fs_type, lang, due))

from_survey_input(survey_input, lang, fs_type, due) ==
  model_validate("PollCreate",
                 PollCreateKeywords(survey_input.v.f, lang, fs_type, due))

\* the parameters of from_survey_input besides cls
from_survey_input_params == {"survey_input", "language", "fact_sheet_type", "due_date"}

\* A call PollCreate.from_survey_input(**kwargs): Python raises TypeError for
\* a keyword the signature does not declare, before the body runs.
\* The outcome is [exc, status, val]: exc is "" for a normal return.
Return(v) == [exc |-> "", status |-> 0, val |-> v]
Raise(e, code) == [exc |-> e, status |-> code, val |-> None]

\* the PollCreate built, or the ValidationError its constructor raises
Constructed(r) == IF r.errs = <<>> THEN Return(r.val) ELSE Raise("ValidationError", 0)

call_from_survey_input(kwargs) ==
  IF ~(DOMAIN kwargs \subseteq from_survey_input_params)
  THEN Raise("TypeError", 0)
  ELSE Constructed(from_survey_input(kwargs["survey_input"], kwargs["language"],
                                     kwargs["fact_sheet_type"],
                                     DictGet(kwargs, "due_date")))

(***************************************************************************)
(* LeanIXClient.create_poll.  The transport's behaviour during the call is *)
(* env = [auth, post, code, response]: whether the token exchange          *)
(* succeeds, whether the POST returns, raises HTTPStatusError (with status *)
(* code) or raises RequestError, and the JSON body of a returned response. *)
(* The outcome is [exc, status, val, sent]: sent lists the JSON bodies the *)
(* transport was handed.                                                   *)
(***************************************************************************)
\* json.dumps(v) succeeds: no datetime.date and no model instance inside
RECURSIVE JsonSerializable(_)
JsonSerializable(v) ==
  CASE v.t \in {"date", "model"} -> FALSE
    [] v.t = "list" -> \A i \in DOMAIN v.v : JsonSerializable(v.v[i])
    [] v.t = "dict" -> \A key \in DOMAIN v.v : JsonSerializable(v.v[key])
    [] OTHER -> TRUE

\* the JSON value json.dumps(v) writes: a str-based Enum member as its string
RECURSIVE JsonEncode(_)
JsonEncode(v) ==
  CASE v.t = "enum" -> W(v.v.value)
    [] v.t = "list" -> List([i \in DOMAIN v.v |-> JsonEncode(v.v[i])])
    [] v.t = "dict" -> Dict([key \in DOMAIN v.v |-> JsonEncode(v.v[key])])
    [] OTHER -> v

\* the payload dumped by field name, and the payload dumped with its None fields
PollPayloadByName(poll_data) == model_dump(poll_data, FALSE, TRUE)
PollPayloadWithNone(poll_data) == model_dump(poll_data, TRUE, FALSE)

\* payload = poll_data.model_dump(by_alias=True, exclude_none=True)
PollPayload(poll_data) == model_dump(poll_data, TRUE, TRUE)

HTTP_401_UNAUTHORIZED == 401
HTTP_503_SERVICE_UNAVAILABLE == 503

\* the POST of the JSON body wire
Post(wire, env) ==
  CASE env.post = "ok" -> Return(env.response) @@ [sent |-> <<wire>>]
    [] env.post = "status_error" ->
         Raise("HTTPException", env.code) @@ [sent |-> <<wire>>]
    [] env.post = "request_error" ->
         Raise("HTTPException", HTTP_503_SERVICE_UNAVAILABLE) @@ [sent |-> <<wire>>]

\* the request with json=body, once the headers are there
Request(body, env) ==
  IF env.auth # "ok"
  THEN Raise("HTTPException", HTTP_401_UNAUTHORIZED) @@ [sent |-> <<>>]
  ELSE IF ~JsonSerializable(body)
  THEN Raise("TypeError", 0) @@ [sent |-> <<>>]
  ELSE Post(JsonEncode(body), env)

create_poll(poll_data, env) == Request(PollPayload(poll_data), env)

OkResponse(id) == Dict([status |-> W("OK"), data |-> Dict([id |-> W(id)])])
ErrorResponse == Dict([status |-> W("ERROR")])

Envs ==
  {[auth |-> "fail", post |-> "ok", code |-> 0, response |-> None],
   [auth |-> "ok", post |-> "ok", code |-> 0, response |-> OkResponse("poll-123")],
   [auth |-> "ok", post |-> "ok", code |-> 0, response |-> ErrorResponse],
   [auth |-> "ok", post |-> "status_error", code |-> 400, response |-> None],
   [auth |-> "ok", post |-> "request_error", code |-> 0, response |-> None]}

NoCall == Raise("not called", 0) @@ [sent |-> <<>>]

(***************************************************************************)
(* leanix_config.py.  A URL is [scheme, netloc, path]: what urlparse finds *)
(* in it, each part the sequence of its symbols.  A token is the sequence  *)
(* of its characters.                                                      *)
(***************************************************************************)
\* url.endswith("/")
EndsWithSlash(url) ==
  IF url.path # <<>> THEN url.path[Len(url.path)] = "/"
  ELSE url.netloc = <<>> /\ url.scheme # <<>>

validate_leanix_url(url) ==
  (IF url.scheme = <<>> \/ url.scheme \notin {<<"http">>, <<"https">>}
   THEN <<"URL must use http or https">> ELSE <<>>)
  \o (IF url.netloc = <<>> THEN <<"Invalid URL format">> ELSE <<>>)
  \o (IF EndsWithSlash(url) THEN <<"URL should not end with a slash">> ELSE <<>>)

validate_api_token(token) ==
  IF token = <<>> \/ Len(Strip(token)) = 0 THEN <<"API token cannot be empty">>
  ELSE IF Len(token) < 10 THEN <<"API token appears too short">>
  ELSE <<>>

\* LeanIXConfig.validate_config: the collected errors; valid when there are none
validate_config(self) ==
  validate_leanix_url(self.base_url) \o validate_api_token(self.api_token)

(***************************************************************************)
(* api.py.  A response is [status_code, success, poll_id, succeeded,       *)
(* failed, results, message]: the HTTP status and the fields of the body   *)
(* (those the endpoint's response model does not have are left at their    *)
(* idle value).  A handler's outcome adds sent, the bodies the transport   *)
(* was handed.                                                             *)
(***************************************************************************)
\* POST /api/validate.  The answer is [status_code, valid, message,
\* survey_input, error]: the HTTP status and the fields of ValidateResponse.
\* SurveyInput(**parsed_data) raises TypeError when the parsed JSON is not an
\* object and ValidationError when the object does not validate; both end in
\* the `except Exception` branch.
NoValidateResponse ==
  [status_code |-> 0, valid |-> FALSE, message |-> "", survey_input |-> None,
   error |-> None]

\* the answer for the outcome r of SurveyInput(**parsed_data)
ValidateAnswer(r) ==
  IF r.errs # <<>>
  THEN [status_code |-> 200, valid |-> FALSE, message |-> "Validation failed",
        survey_input |-> None, error |-> W("validation errors")]
  ELSE [status_code |-> 200, valid |-> TRUE,
        message |-> "Survey definition is valid",
        survey_input |-> model_dump(r.val, TRUE, FALSE), error |-> None]

\* the endpoint without its `except Exception` branch for a TypeError
validate_survey_uncaught(req) ==
  IF ~req.wellformed
  THEN [status_code |-> 200, valid |-> FALSE, message |-> "Invalid JSON",
        survey_input |-> None, error |-> W("Invalid JSON")]
  ELSE IF req.json.t # "dict"
  THEN [status_code |-> 500, valid |-> FALSE, message |-> "Internal Server Error",
        survey_input |-> None, error |-> None]
  ELSE ValidateAnswer(model_validate("SurveyInput", req.json))

validate_survey(req) ==
  IF ~req.wellformed
  THEN [status_code |-> 200, valid |-> FALSE, message |-> "Invalid JSON",
        survey_input |-> None, error |-> W("Invalid JSON")]
  ELSE IF req.json.t # "dict"
  THEN [status_code |-> 200, valid |-> FALSE, message |-> "Validation failed",
        survey_input |-> None, error |-> W("argument after ** must be a mapping")]
  ELSE ValidateAnswer(model_validate("SurveyInput", req.json))

\* MAX_BATCH_SIZE = int(os.getenv("MAX_BATCH_SIZE", "25")): the environment sets
\* it; the modelled deployment runs with MAX_BATCH_SIZE=3
MAX_BATCH_SIZE == 3

NoResponse ==
  [status_code |-> 0, success |-> FALSE, poll_id |-> None, succeeded |-> 0,
   failed |-> 0, results |-> <<>>, message |-> ""]

\* raise HTTPException(status_code=code, detail=detail)
HttpError(code, detail) == [NoResponse EXCEPT !.status_code = code, !.message = detail]

\* poll_id of a LeanIX response: its data.id when status is "OK" and data is
\* not empty
ExtractPollId(resp) ==
  IF resp.t = "dict" /\ DictGet(resp.v, "status") = W("OK")
     /\ Truthy(DictGet(resp.v, "data"))
  THEN DictGet(DictGet(resp.v, "data").v, "id")
  ELSE None

\* the keywords both endpoints pass to PollCreate.from_survey_input
ApiKeywords(create_request) ==
  [survey_input |-> create_request.survey_input,
   language |-> create_request.language,
   fact_sheet_type |-> create_request.fact_sheet_type,
   due_date |-> create_request.due_date,
   transform_ids_to_uuid |-> BoolV(TRUE)]

\* create_survey after client.create_poll ended with r
SurveyCreated(r) ==
  IF r.exc = "HTTPException"
  THEN HttpError(r.status, "LeanIX error") @@ [sent |-> r.sent]
  ELSE IF r.exc # ""
  THEN [NoResponse EXCEPT !.status_code = 200,
                          !.message = "Failed to create survey"]
       @@ [sent |-> r.sent]
  ELSE [NoResponse EXCEPT !.status_code = 200, !.success = TRUE,
                          !.poll_id = ExtractPollId(r.val),
                          !.message = "Survey created successfully in LeanIX"]
       @@ [sent |-> r.sent]

\* create_survey after PollCreate.from_survey_input ended with a
SurveyAssembled(a, env) ==
  IF a.exc # ""
  THEN [NoResponse EXCEPT !.status_code = 200,
                          !.message = "Failed to create survey"]
       @@ [sent |-> <<>>]
  ELSE SurveyCreated(create_poll(a.val, env))

create_survey(create_request, cfg, env) ==
  IF validate_config(cfg) # <<>>
  THEN HttpError(422, "Invalid configuration") @@ [sent |-> <<>>]
  ELSE SurveyAssembled(call_from_survey_input(ApiKeywords(create_request)), env)

\* one BatchSurveyItemResult, with what the transport was handed for it
ItemResult(i, ok, id, msg, wire) ==
  [index |-> i, success |-> ok, poll_id |-> id, message |-> msg, sent |-> wire]

\* the loop body of create_survey_batch after client.create_poll ended with r
ItemCreated(i, r) ==
  IF r.exc = "HTTPException"
  THEN ItemResult(i, FALSE, None, "Failed to create survey", r.sent)
  ELSE IF r.exc # ""
  THEN ItemResult(i, FALSE, None, "Unexpected error during survey creation", r.sent)
  ELSE ItemResult(i, TRUE, ExtractPollId(r.val), "Survey created successfully",
                  r.sent)

\* the loop body after PollCreate.from_survey_input ended with a
ItemAssembled(i, a, env) ==
  IF a.exc # ""
  THEN ItemResult(i, FALSE, None, "Unexpected error during survey creation", <<>>)
  ELSE ItemCreated(i, create_poll(a.val, env))

\* the loop body for the request at index i
BatchItemResult(i, create_request, env) ==
  ItemAssembled(i, call_from_survey_input(ApiKeywords(create_request)), env)

\* a loop that never breaks
NeverBreak(item, ff) == FALSE

\* if fail_fast: break, in the two except branches of the loop body
BreakLoop(item, ff) == ~item.success /\ ff

\* sum(1 for r in results if r.success), and if not r.success
CountSuccess(rs, ok) == Cardinality({i \in DOMAIN rs : rs[i].success = ok})

\* a summary that counts every entry as succeeded
BatchResponseAllSucceeded(rs) ==
  [NoResponse EXCEPT !.status_code = 200,
                     !.success = TRUE,
                     !.succeeded = Len(rs),
                     !.failed = 0,
                     !.results = [i \in DOMAIN rs |->
                                    [index |-> rs[i].index,
                                     success |-> rs[i].success,
                                     poll_id |-> rs[i].poll_id,
                                     message |-> rs[i].message]],
                     !.message = "Batch completed"]

\* the BatchSurveyCreateResponse over the collected results
BatchResponse(rs) ==
  [NoResponse EXCEPT !.status_code = 200,
                     !.success = (CountSuccess(rs, FALSE) = 0),
                     !.succeeded = CountSuccess(rs, TRUE),
                     !.failed = CountSuccess(rs, FALSE),
                     !.results = [i \in DOMAIN rs |->
                                    [index |-> rs[i].index,
                                     success |-> rs[i].success,
                                     poll_id |-> rs[i].poll_id,
                                     message |-> rs[i].message]],
                     !.message = "Batch completed"]

(***************************************************************************)
(* The pipeline: validate a text, assemble the PollCreate, serialize it,   *)
(* hand it to the client.                                                  *)
(***************************************************************************)
PipeIdle ==
  /\ doc = Malformed
  /\ language = W("en")
  /\ fact_sheet_type = W("Application")
  /\ due_date = None
  /\ vres = NotValidated
  /\ poll = None
  /\ payload = None
  /\ call = NoCall
  /\ revalidated = NotValidated
  /\ validate_response = NoValidateResponse

ApiIdle ==
  /\ endpoint = ""
  /\ requests = <<>>
  /\ fail_fast = FALSE
  /\ config = [base_url |-> [scheme |-> <<>>, netloc |-> <<>>, path |-> <<>>],
               api_token |-> <<>>]
  /\ transport = <<>>
  /\ pc = "idle"
  /\ index = 0
  /\ results = <<>>
  /\ assembled = <<>>
  /\ sent = <<>>
  /\ response = NoResponse

(***************************************************************************)
(* LeanIXClient (leanix_client.py): one client used for several requests.  *)
(* The client is [access_token, token_expiry]; time.time() is the clock;   *)
(* a request of the client ends in [method, at, before, exc, status,       *)
(* sent]: the time and the client's state when it began, the exception it  *)
(* raised with its status code, and the requests the transport was handed, *)
(* each [request, bearer].  The token endpoint's behaviour is [post, body] *)
(* and the poll endpoint's is "ok" or "request_error".                     *)
(***************************************************************************)
\* self._access_token = None; self._token_expiry = 0
NewClient == [access_token |-> None, token_expiry |-> 0]

\* if self._access_token and time.time() < self._token_expiry
TokenCached(self, t) == Truthy(self.access_token) /\ t < self.token_expiry

\* token_data.get("expires_in", 3600)
ExpiresIn(token_data) ==
  IF "expires_in" \in DOMAIN token_data.v THEN token_data.v["expires_in"]
  ELSE [t |-> "int", v |-> 3600]

\* the except branch: HTTPException(401), with the client as it is by then
ExchangeFailed(self) ==
  [self |-> self, exc |-> "HTTPException", status |-> HTTP_401_UNAUTHORIZED,
   token |-> None, sent |-> <<[request |-> "token", bearer |-> None]>>]

\* the try block of _get_access_token: the POST and raise_for_status, the
\* token stored from token_data["access_token"], then the expiry computed
\* from expires_in, which raises TypeError when that is not a number
Exchange(self, t, tenv) ==
  IF tenv.post # "ok" THEN ExchangeFailed(self)
  ELSE IF tenv.body.t # "dict" \/ "access_token" \notin DOMAIN tenv.body.v
  THEN ExchangeFailed(self)
  ELSE IF ExpiresIn(tenv.body).t # "int"
  THEN ExchangeFailed([self EXCEPT !.access_token = tenv.body.v["access_token"]])
  ELSE [self |-> [access_token |-> tenv.body.v["access_token"],
                  token_expiry |-> t + ExpiresIn(tenv.body).v - 60],
        exc |-> "", status |-> 0, token |-> tenv.body.v["access_token"],
        sent |-> <<[request |-> "token", bearer |-> None]>>]

\* LeanIXClient._get_access_token at time t
get_access_token(self, t, tenv) ==
  IF TokenCached(self, t)
  THEN [self |-> self, exc |-> "", status |-> 0, token |-> self.access_token,
        sent |-> <<>>]
  ELSE Exchange(self, t, tenv)

\* create_poll and get_poll: the headers from _get_headers, then the request
\* with the bearer token
PollRequest(method, self, t, tenv, penv) ==
  IF get_access_token(self, t, tenv).exc # ""
  THEN [method |-> method, at |-> t, before |-> self,
        after |-> get_access_token(self, t, tenv).self,
        exc |-> "HTTPException", status |-> HTTP_401_UNAUTHORIZED,
        sent |-> get_access_token(self, t, tenv).sent]
  ELSE [method |-> method, at |-> t, before |-> self,
        after |-> get_access_token(self, t, tenv).self,
        exc |-> IF penv = "ok" THEN "" ELSE "HTTPException",
        status |-> IF penv = "ok" THEN 0 ELSE HTTP_503_SERVICE_UNAVAILABLE,
        sent |-> Append(get_access_token(self, t, tenv).sent,
                        [request |-> method,
                         bearer |-> get_access_token(self, t, tenv).token])]

NoClientCall ==
  [method |-> "", at |-> 0, before |-> NewClient, after |-> NewClient, exc |-> "",
   status |-> 0, sent |-> <<>>]

\* the span of time between two requests: half the life of a token cached
\* for the default 3600 seconds less the 60 second buffer
TimeStep == (3600 - 60) \div 2

\* the lifetimes the token endpoint announces: one the buffer uses up, one
\* that lasts a span, and the default
ExpiresInValues == {60, TimeStep + 60, 3600}

\* the answers of the token endpoint: a refusal, a token with or without
\* expires_in, no token, and a token whose expires_in is not a number
TokenValues == {W("token-a"), W("token-b")}
TokenEnvs ==
  {[post |-> "error", body |-> None]}
  \cup {[post |-> "ok", body |-> Dict([access_token |-> tk])] : tk \in TokenValues}
  \cup {[post |-> "ok",
         body |-> Dict([access_token |-> tk, expires_in |-> [t |-> "int", v |-> n]])] :
          tk \in TokenValues, n \in ExpiresInValues \ {3600}}
  \cup {[post |-> "ok", body |-> Dict([token_type |-> W("bearer")])]}
  \cup {[post |-> "ok", body |-> Dict([access_token |-> tk, expires_in |-> e])] :
          tk \in TokenValues, e \in {None, W("3600")}}

\* the end of the modelled time
MaxClock == 3 * TimeStep

ClientIdle ==
  /\ clock = 0
  /\ client = NewClient
  /\ client_call = NoClientCall

(***************************************************************************)
(* streamlit_app.py: the session state of the UI.  A text of the JSON      *)
(* input area is [blank, text]: whether it is empty once stripped, and the *)
(* text.  The sidebar's URL is the sequence of its parts (the scheme with  *)
(* "://" first, when there is one); its token, workspace id and fact sheet *)
(* type are sequences of characters.                                      *)
(***************************************************************************)
\* the session state after its initialization
NewSession ==
  [survey_input |-> None, validation_result |-> None, created_poll_id |-> None]

NoCreateRequest == None

\* the value="https://your-instance.leanix.net" of the URL input
PlaceholderUrl == <<"https://", "your-instance.leanix.net">>

simple_url_validation(url) ==
  IF url = <<>> \/ url = PlaceholderUrl THEN "LeanIX URL not configured"
  ELSE IF url[1] \notin {"http://", "https://"}
  THEN "URL must start with http:// or https://"
  ELSE ""

simple_token_validation(token) ==
  IF token = <<>> \/ Len(Strip(token)) = 0 THEN "API token cannot be empty" ELSE ""

HexDigits ==
  {"0", "1", "2", "3", "4", "5", "6", "7", "8", "9", "a", "b", "c", "d", "e", "f"}

\* UUID(workspace_id) does not raise: 32 hexadecimal digits once the hyphens
\* are taken out
IsUuid(s) ==
  /\ Cardinality({i \in DOMAIN s : s[i] # "-"}) = 32
  /\ \A i \in DOMAIN s : s[i] \in HexDigits \cup {"-"}

validate_workspace_id_format(workspace_id) ==
  IF workspace_id = <<>> \/ Len(Strip(workspace_id)) = 0
  THEN "Workspace ID cannot be empty"
  ELSE IF ~IsUuid(workspace_id) THEN "Workspace ID must be a valid UUID"
  ELSE ""

\* the issues the Create tab lists; ready_to_create when there are none
ConfigurationIssues(sidebar) ==
  (IF simple_url_validation(sidebar.leanix_url) # ""
   THEN <<"LeanIX URL">> ELSE <<>>)
  \o (IF simple_token_validation(sidebar.api_token) # ""
      THEN <<"API Token">> ELSE <<>>)
  \o (IF validate_workspace_id_format(sidebar.workspace_id) # ""
      THEN <<"Workspace ID">> ELSE <<>>)
  \o (IF sidebar.fact_sheet_type = <<>>
      THEN <<"Fact Sheet Type not specified">> ELSE <<>>)

\* the validation_result the Validate handler stores for the outcome r
ValidationResult(r) ==
  [t |-> "dict",
   v |-> [valid |-> r.valid, survey_input |-> r.survey, error |-> r.kind]]

\* the Validate handler that stores the survey of a failed validation too
ValidateClickedOverwriting(session, json_input) ==
  IF json_input.blank THEN session
  ELSE [session EXCEPT
          !.validation_result = ValidationResult(validate_json_string(json_input.text)),
          !.survey_input = validate_json_string(json_input.text).survey]

\* the handler of the "Validate JSON" button
ValidateClicked(session, json_input) ==
  IF json_input.blank THEN session
  ELSE IF validate_json_string(json_input.text).valid
  THEN [session EXCEPT
          !.validation_result = ValidationResult(validate_json_string(json_input.text)),
          !.survey_input = validate_json_string(json_input.text).survey]
  ELSE [session EXCEPT
          !.validation_result = ValidationResult(validate_json_string(json_input.text))]

\* the handler of the "Clear" button
ClearClicked(session) ==
  [session EXCEPT !.survey_input = None, !.validation_result = None]

UiIdle ==
  /\ session_state = NewSession
  /\ backend_request = NoCreateRequest
  /\ ui_event = [button |-> "", json_input |-> [blank |-> TRUE, text |-> Malformed]]

(***************************************************************************)
(* Concurrent callers of validate_json_string and of                       *)
(* PollCreate.from_survey_input.  The heap holds the SurveyInput objects   *)
(* that exist; a caller's frame is [op, pc, calls, json_string, data,      *)
(* survey_input, given, language, fact_sheet_type, due_date, kwargs,       *)
(* result]: the function it runs and where it stands, its arguments        *)
(* (survey_input is the heap index of the object passed in, given that     *)
(* object's value when the call began), its locals and what it returned.   *)
(***************************************************************************)
IdleFrame ==
  [op |-> "", pc |-> "idle", calls |-> 0, json_string |-> Malformed, data |-> None,
   survey_input |-> 0, given |-> None, language |-> None, fact_sheet_type |-> None,
   due_date |-> None, kwargs |-> None, result |-> None]

\* data = json.loads(json_string), and the return of the JSONDecodeError branch
json_loads_step(f, hp) ==
  IF ~f.json_string.wellformed
  THEN [frame |-> [f EXCEPT !.pc = "done",
                     !.result = [valid |-> FALSE, survey |-> None,
                                 kind |-> "Invalid JSON", errs |-> <<>>]],
        heap |-> hp]
  ELSE [frame |-> [f EXCEPT !.pc = "model_validate", !.data = f.json_string.json],
        heap |-> hp]

\* survey_input = SurveyInput.model_validate(data) and the return: the new
\* object, when there is one, is added to the heap
model_validate_step(f, hp) ==
  [frame |-> [f EXCEPT !.pc = "done",
                !.result = ValidationOutcome(model_validate("SurveyInput", f.data))],
   heap |-> IF model_validate("SurveyInput", f.data).errs = <<>>
            THEN Append(hp, model_validate("SurveyInput", f.data).val)
            ELSE hp]

\* the keywords read off survey_input, which loses its questionnaire to them
read_keywords_step_moving(f, hp) ==
  [frame |-> [f EXCEPT !.pc = "construct",
                !.kwargs = PollCreateKeywords(hp[f.survey_input].v.f, f.language,
                                              f.fact_sheet_type, f.due_date)],
   heap |-> [hp EXCEPT ![f.survey_input].v.f.questionnaire = None]]

\* from_survey_input: the keywords of cls(...) read off survey_input
read_keywords_step(f, hp) ==
  [frame |-> [f EXCEPT !.pc = "construct",
                !.kwargs = PollCreateKeywords(hp[f.survey_input].v.f, f.language,
                                              f.fact_sheet_type, f.due_date)],
   heap |-> hp]

\* from_survey_input: return cls(...)
construct_step(f, hp) ==
  [frame |-> [f EXCEPT !.pc = "done",
                !.result = model_validate("PollCreate", f.kwargs)],
   heap |-> hp]

ConcIdle ==
  /\ heap = <<>>
  /\ frames = <<>>

GetIdle ==
  /\ CACHE_ENABLED = FALSE
  /\ poll_cache = <<>>
  /\ now = 0
  /\ gets = <<>>
  /\ transport_log = <<>>
  /\ cache_log = <<>>

SvcIdle == GetIdle /\ ClientIdle /\ UiIdle /\ ConcIdle

Init ==
  /\ doc \in {Text(d) : d \in Docs} \cup {Malformed}
  /\ language \in Languages
  /\ fact_sheet_type \in FactSheetTypes
  /\ due_date \in DueDates
  /\ vres = NotValidated
  /\ poll = None
  /\ payload = None
  /\ call = NoCall
  /\ revalidated = NotValidated
  /\ validate_response = NoValidateResponse
  /\ ApiIdle
  /\ SvcIdle

\* validate_json_string(text)
Validate ==
  /\ vres = NotValidated
  /\ vres' = validate_json_string(doc)
  /\ UNCHANGED <<doc, language, fact_sheet_type, due_date, poll, payload, call>>
  /\ UNCHANGED <<revalidated, validate_response>>
  /\ UNCHANGED <<apiVars, svcVars>>

\* the keywords of the call: due_date may be left out when there is none
AssembleKeywords ==
  {[survey_input |-> vres.survey, language |-> language,
    fact_sheet_type |-> fact_sheet_type, due_date |-> due_date]}
  \cup (IF due_date = None
        THEN {[survey_input |-> vres.survey, language |-> language,
               fact_sheet_type |-> fact_sheet_type]}
        ELSE {})

\* PollCreate.from_survey_input(survey_input=..., language=...,
\* fact_sheet_type=..., due_date=...) on the validated survey
Assemble ==
  /\ vres.valid
  /\ poll = None
  /\ \E kwargs \in AssembleKeywords : poll' = call_from_survey_input(kwargs).val
  /\ UNCHANGED <<doc, language, fact_sheet_type, due_date, vres, payload, call>>
  /\ UNCHANGED <<revalidated, validate_response>>
  /\ UNCHANGED <<apiVars, svcVars>>

\* the payload of poll, as create_poll builds it
Serialize ==
  /\ poll # None
  /\ payload = None
  /\ payload' = PollPayload(poll)
  /\ UNCHANGED <<doc, language, fact_sheet_type, due_date, vres, poll, call>>
  /\ UNCHANGED <<revalidated, validate_response>>
  /\ UNCHANGED <<apiVars, svcVars>>

\* client.create_poll(poll)
CreatePoll ==
  /\ poll # None
  /\ call = NoCall
  /\ \E env \in Envs : call' = create_poll(poll, env)
  /\ UNCHANGED <<doc, language, fact_sheet_type, due_date, vres, poll, payload>>
  /\ UNCHANGED <<revalidated, validate_response>>
  /\ UNCHANGED <<apiVars, svcVars>>

\* SurveyInput.model_validate(json.loads(survey.model_dump_json(by_alias=True,
\* exclude_none=True))) on the validated survey
Revalidate ==
  /\ vres.valid
  /\ revalidated = NotValidated
  /\ revalidated' = ValidationOutcome(
                       model_validate("SurveyInput",
                                      model_dump_json(vres.survey, TRUE, TRUE)))
  /\ UNCHANGED <<doc, language, fact_sheet_type, due_date, vres, poll, payload, call,
                 validate_response>>
  /\ UNCHANGED <<apiVars, svcVars>>

\* POST /api/validate with the text as json_input
ValidateSurvey ==
  /\ validate_response = NoValidateResponse
  /\ validate_response' = validate_survey(doc)
  /\ UNCHANGED <<doc, language, fact_sheet_type, due_date, vres, poll, payload, call,
                 revalidated>>
  /\ UNCHANGED <<apiVars, svcVars>>

Next ==
  Validate \/ Assemble \/ Serialize \/ CreatePoll \/ Revalidate \/ ValidateSurvey

Spec == Init /\ [][Next]_vars

(***************************************************************************)
(* Properties of validation, assembly and serialization (under Spec).      *)
(***************************************************************************)
IsPrefix(p, l) == Len(p) <= Len(l) /\ SubSeq(l, 1, Len(p)) = p

\* the questions of a JSON list of questions at location loc, at every
\* depth, each with its location
RECURSIVE QuestionsIn(_, _)
QuestionsIn(list, loc) ==
  UNION {{[loc |-> Append(loc, IndexStr(i - 1)), q |-> list.v[i]]}
         \cup (IF "children" \in DOMAIN list.v[i].v
               THEN QuestionsIn(list.v[i].v["children"],
                                loc \o <<IndexStr(i - 1), "children">>)
               ELSE {}) : i \in DOMAIN list.v}

DocQuestions ==
  IF /\ doc.wellformed
     /\ doc.json.t = "dict"
     /\ DictGet(doc.json.v, "questionnaire").t = "dict"
     /\ DictGet(doc.json.v["questionnaire"].v, "questions").t = "list"
  THEN QuestionsIn(doc.json.v["questionnaire"].v["questions"],
                   <<"questionnaire", "questions">>)
  ELSE {}

Validated == vres.kind # "not run"
IsChoice(q) == q.v["type"] \in ChoiceTypes
OptionsAbsent(q) == "options" \notin DOMAIN q.v
OptionsEmpty(q) ==
  "options" \in DOMAIN q.v /\ q.v["options"].t = "list" /\ q.v["options"].v = <<>>
OptionsNull(q) == "options" \in DOMAIN q.v /\ q.v["options"].t = "null"
ErrorAt(loc) == \E i \in DOMAIN vres.errs : vres.errs[i].loc = loc
ErrorUnder(loc) == \E i \in DOMAIN vres.errs : IsPrefix(loc, vres.errs[i].loc)

\* C1: a document with a singlechoice or multiplechoice question, at any
\* depth, whose options are absent or an empty list is rejected: no survey is
\* produced, and an error is reported at or under the path of that question.
C1_ChoiceWithoutOptionsRejected ==
  Validated =>
    \A x \in DocQuestions :
      IsChoice(x.q) /\ (OptionsAbsent(x.q) \/ OptionsEmpty(x.q)) =>
        ~vres.valid /\ vres.survey = None /\ ErrorUnder(x.loc)

\* a nested choice question without an options key has been rejected
C1_Witness ==
  /\ vres.kind = "Validation errors"
  /\ \E x \in DocQuestions :
       IsChoice(x.q) /\ OptionsAbsent(x.q) /\ Len(x.loc) = 5 /\ ErrorUnder(x.loc)

HasStrTitle ==
  /\ doc.wellformed
  /\ doc.json.t = "dict"
  /\ DictGet(doc.json.v, "title").t = "str"
AllWhitespace(s) == \A i \in DOMAIN s : s[i] \in Whitespace

\* t is s without its leading and trailing whitespace, and is not empty
IsTrimOf(t, s) ==
  \E i, j \in DOMAIN s :
    /\ i <= j
    /\ t = SubSeq(s, i, j)
    /\ s[i] \notin Whitespace
    /\ s[j] \notin Whitespace
    /\ \A k \in DOMAIN s : k < i \/ k > j => s[k] \in Whitespace

\* the document is valid once its title is replaced by a plain one
OtherwiseValid ==
  model_validate("SurveyInput",
                 Dict([key \in DOMAIN doc.json.v |->
                         IF key = "title" THEN Str(<<"T">>) ELSE doc.json.v[key]])
                ).errs = <<>>

\* C3: a document whose title is empty or only whitespace is rejected; a
\* document, valid otherwise, whose title has content between leading and
\* trailing whitespace is accepted and the stored title is the trimmed one.
C3_TitleTrimmedOrRejected ==
  Validated /\ HasStrTitle =>
    /\ AllWhitespace(doc.json.v["title"].v) => ~vres.valid /\ vres.survey = None
    /\ ~AllWhitespace(doc.json.v["title"].v) /\ OtherwiseValid =>
         /\ vres.valid
         /\ vres.survey.v.f["title"].t = "str"
         /\ IsTrimOf(vres.survey.v.f["title"].v, doc.json.v["title"].v)

\* the title " T " has been accepted and stored as "T"
C3_Witness ==
  /\ HasStrTitle
  /\ doc.json.v["title"].v = <<" ", "T", " ">>
  /\ vres.valid
  /\ vres.survey.v.f["title"].v = <<"T">>

\* the attributes SurveyInput and PollCreate share
SharedAttributes ==
  {"title", "questionnaire", "introduction_text", "introduction_subject",
   "additional_fact_sheet_subject", "additional_fact_sheet_text",
   "additional_fact_sheet_check_enabled", "repeat_interval", "time_frame",
   "send_change_notifications", "allowed_permission_status",
   "dynamic_scope_check_enabled", "fact_sheet_query", "user_query"}

\* C4: the PollCreate that from_survey_input returns has every attribute it
\* shares with SurveyInput (title, questionnaire, the 12 optional ones) equal
\* to the survey's, and language, fact_sheet_type and due_date equal to the
\* arguments (due_date None when it was not supplied).
C4_AssemblyCopiesFields ==
  poll # None =>
    /\ poll.t = "model" /\ poll.v.cls = "PollCreate"
    /\ \A n \in SharedAttributes : poll.v.f[n] = vres.survey.v.f[n]
    /\ poll.v.f["language"] = language
    /\ poll.v.f["fact_sheet_type"] = fact_sheet_type
    /\ poll.v.f["due_date"] = due_date

\* a survey with all 12 optional fields has been assembled with a due date
C4_Witness ==
  /\ poll # None
  /\ due_date # None
  /\ \A n \in SharedAttributes : vres.survey.v.f[n] # None

\* the wire name of each optional attribute of PollCreate
WireName ==
  [due_date |-> "dueDate",
   introduction_text |-> "introductionText",
   introduction_subject |-> "introductionSubject",
   additional_fact_sheet_subject |-> "additionalFactSheetSubject",
   additional_fact_sheet_text |-> "additionalFactSheetText",
   additional_fact_sheet_check_enabled |-> "additionalFactSheetCheckEnabled",
   repeat_interval |-> "repeatInterval",
   time_frame |-> "timeFrame",
   send_change_notifications |-> "sendChangeNotifications",
   allowed_permission_status |-> "allowedPermissionStatus",
   dynamic_scope_check_enabled |-> "dynamicScopeCheckEnabled",
   fact_sheet_query |-> "factSheetQuery",
   user_query |-> "userQuery"]

\* C8: the top-level keys of the wire payload of a PollCreate are title,
\* language, factSheetType and questionnaire plus the camelCase wire name of
\* every optional attribute that is not None, and no snake_case attribute
\* name is a key.
C8_PayloadKeysAreWireNames ==
  payload # None =>
    /\ DOMAIN payload.v =
         {"title", "language", "factSheetType", "questionnaire"}
         \cup {WireName[n] : n \in {m \in DOMAIN WireName : poll.v.f[m] # None}}
    /\ DOMAIN payload.v \cap (DOMAIN WireName \cup {"fact_sheet_type"}) = {}

\* a PollCreate with a user query and a due date has been serialized
C8_Witness ==
  /\ payload # None
  /\ poll.v.f["user_query"] # None
  /\ poll.v.f["due_date"] # None
  /\ "userQuery" \in DOMAIN payload.v

\* v holds a null somewhere
RECURSIVE HasNull(_)
HasNull(v) ==
  CASE v.t = "null" -> TRUE
    [] v.t = "list" -> \E i \in DOMAIN v.v : HasNull(v.v[i])
    [] v.t = "dict" -> \E key \in DOMAIN v.v : HasNull(v.v[key])
    [] OTHER -> FALSE

\* the keys whose value is a free-form map copied from the input
FreeFormKeys == {"fsSections", "condition", "subscription"}

\* v holds a null that is not inside a free-form map
RECURSIVE HasNullOutsideMaps(_)
HasNullOutsideMaps(v) ==
  CASE v.t = "null" -> TRUE
    [] v.t = "list" -> \E i \in DOMAIN v.v : HasNullOutsideMaps(v.v[i])
    [] v.t = "dict" ->
         \E key \in DOMAIN v.v \ FreeFormKeys : HasNullOutsideMaps(v.v[key])
    [] OTHER -> FALSE

\* C9, as stated: the payload of a PollCreate without due date has no
\* dueDate key, and no key at any nesting level of a payload carries null.
C9_NoNullAnywhere ==
  payload # None =>
    /\ poll.v.f["due_date"] = None => "dueDate" \notin DOMAIN payload.v
    /\ ~HasNull(payload)

\* C9, amended: the payload of a PollCreate without due date has no dueDate
\* key, and every attribute that is None is omitted at every nesting level;
\* a null appears only inside the free-form maps (fsSections, condition,
\* subscription), whose entries are copied as the input gave them.
C9_NoNullOutsideFreeFormMaps ==
  payload # None =>
    /\ poll.v.f["due_date"] = None => "dueDate" \notin DOMAIN payload.v
    /\ ~HasNullOutsideMaps(payload)

\* a PollCreate without due date, with a question whose settings hold a None
\* attribute and a null inside fsSections, has been serialized
C9_Witness ==
  /\ payload # None
  /\ poll.v.f["due_date"] = None
  /\ doc.json.v["questionnaire"] = Dict([questions |-> List(<<SettingsLeaf>>)])
  /\ HasNull(payload)

\* C10, as stated: when create_poll is called for a PollCreate with a due
\* date and the token exchange succeeds, the transport is handed a payload
\* whose dueDate is a string.
C10_DueDateSentAsString ==
  /\ call.exc # "not called"
  /\ poll.v.f["due_date"] # None
  /\ ~(call.exc = "HTTPException" /\ call.status = HTTP_401_UNAUTHORIZED)
  => /\ Len(call.sent) = 1
     /\ "dueDate" \in DOMAIN call.sent[1].v
     /\ call.sent[1].v["dueDate"].t = "str"

\* C11: validation is stable under a round trip: the JSON form of a validated
\* survey (wire names, None attributes omitted) validates again, to a survey
\* equal to the first.
C11_RoundTripStable ==
  revalidated.kind # "not run" =>
    /\ revalidated.valid
    /\ revalidated.survey = vres.survey

\* v holds a date somewhere
RECURSIVE HasDate(_)
HasDate(v) ==
  CASE v.t = "date" -> TRUE
    [] v.t = "list" -> \E i \in DOMAIN v.v : HasDate(v.v[i])
    [] v.t = "dict" -> \E key \in DOMAIN v.v : HasDate(v.v[key])
    [] v.t = "model" -> \E key \in DOMAIN v.v.f : HasDate(v.v.f[key])
    [] OTHER -> FALSE

\* a survey holding dates and an Enum member has been validated again from
\* its JSON form
C11_Witness ==
  /\ revalidated.valid
  /\ HasDate(vres.survey)
  /\ revalidated.survey = vres.survey

\* the shape of a JSON list of questions: for each question, in order, its
\* id, the ids of its options in order, and the shape of its children
RECURSIVE Shape(_)
Shape(list) ==
  [i \in DOMAIN list.v |->
     [id |-> DictGet(list.v[i].v, "id"),
      options |->
        IF DictGet(list.v[i].v, "options").t = "list"
        THEN [j \in DOMAIN list.v[i].v["options"].v |->
                DictGet(list.v[i].v["options"].v[j].v, "id")]
        ELSE <<>>,
      children |->
        IF DictGet(list.v[i].v, "children").t = "list"
        THEN Shape(list.v[i].v["children"])
        ELSE <<>>]]

\* the depth of a shape
RECURSIVE Depth(_)
Depth(sh) ==
  IF sh = <<>> THEN 0
  ELSE 1 + CHOOSE d \in 0..9 :
             /\ \A i \in DOMAIN sh : Depth(sh[i].children) <= d
             /\ \E i \in DOMAIN sh : Depth(sh[i].children) = d

\* C12: the question tree of the wire payload has the shape of the input's:
\* the same questions in the same order at every depth, each with its options
\* in the same order.
C12_TreeShapePreserved ==
  payload # None =>
    Shape(payload.v["questionnaire"].v["questions"])
      = Shape(doc.json.v["questionnaire"].v["questions"])

\* a tree three levels deep, with two options in one question, has been
\* serialized
C12_Witness ==
  /\ payload # None
  /\ Depth(Shape(payload.v["questionnaire"].v["questions"])) = 3
  /\ \E x \in DocQuestions :
       /\ Len(x.loc) = 7
       /\ DictGet(x.q.v, "options").t = "list"
       /\ Len(x.q.v["options"].v) = 2

\* the roles of the document's user query, as JSON values
DocRoles ==
  IF /\ doc.wellformed
     /\ doc.json.t = "dict"
     /\ DictGet(doc.json.v, "userQuery").t = "dict"
     /\ DictGet(doc.json.v["userQuery"].v, "roles").t = "list"
  THEN {doc.json.v["userQuery"].v["roles"].v[i] :
          i \in DOMAIN doc.json.v["userQuery"].v["roles"].v}
  ELSE {}

\* C13: a question at any depth that is invalid on its own (a choice question
\* without options, a missing required field, an invalid nested value), or an
\* invalid role of the user query, makes validation of the whole document
\* fail, and no survey is returned.
C13_InvalidDescendantRejectsDocument ==
  Validated =>
    /\ \A x \in DocQuestions :
         model_validate("Question", x.q).errs # <<>> =>
           ~vres.valid /\ vres.survey = None /\ ErrorUnder(x.loc)
    /\ \A r \in DocRoles :
         model_validate("UserRole", r).errs # <<>> =>
           ~vres.valid /\ vres.survey = None

\* a document whose only invalid node is a question three levels deep has
\* been rejected
C13_Witness ==
  /\ vres.kind = "Validation errors"
  /\ \E x \in DocQuestions :
       /\ Len(x.loc) = 7
       /\ model_validate("Question", x.q).errs # <<>>
       /\ \A y \in DocQuestions :
            model_validate("Question", y.q).errs # <<>> => IsPrefix(y.loc, x.loc)

\* C14: validate_json_string and POST /api/validate turn every input text
\* into a result: malformed JSON and a schema violation give valid = false,
\* no document and a non-empty error (the endpoint with HTTP 200); a success
\* gives valid = true, the document and no error; the document is there
\* exactly when valid is true, and the two agree on every text.
C14_ValidatorsReturnResults ==
  /\ Validated =>
       /\ vres.valid <=> vres.survey # None
       /\ vres.valid => vres.kind = "" /\ vres.errs = <<>> /\ doc.wellformed
       /\ ~vres.valid => vres.kind \in {"Invalid JSON", "Validation errors"}
       /\ ~doc.wellformed => vres.kind = "Invalid JSON"
       /\ vres.kind = "Validation errors" => vres.errs # <<>>
  /\ validate_response.status_code # 0 =>
       /\ validate_response.status_code = 200
       /\ validate_response.valid <=> validate_response.survey_input # None
       /\ validate_response.valid => validate_response.error = None
       /\ ~validate_response.valid =>
            /\ validate_response.error.t = "str"
            /\ Len(validate_response.error.v) > 0
       /\ ~doc.wellformed => validate_response.message = "Invalid JSON"
  /\ Validated /\ validate_response.status_code # 0 =>
       vres.valid = validate_response.valid

\* a text that is JSON but no object has been given to both, and both
\* answered with a failure result
C14_Witness ==
  /\ doc.wellformed
  /\ doc.json.t = "list"
  /\ vres.kind = "Validation errors"
  /\ validate_response.status_code = 200
  /\ ~validate_response.valid

IsObject == doc.wellformed /\ doc.json.t = "dict"

\* C15: a document without the title field, or without the questionnaire
\* field, is rejected whatever other fields it supplies, with a "Field
\* required" error at the missing field.
C15_RequiredFieldsEnforced ==
  Validated /\ IsObject =>
    /\ "title" \notin DOMAIN doc.json.v =>
         ~vres.valid /\ vres.survey = None /\ ErrorAt(<<"title">>)
    /\ "questionnaire" \notin DOMAIN doc.json.v =>
         ~vres.valid /\ vres.survey = None /\ ErrorAt(<<"questionnaire">>)

\* a document with a title and all optional fields but no questionnaire has
\* been rejected
C15_Witness ==
  /\ IsObject
  /\ vres.kind = "Validation errors"
  /\ "questionnaire" \notin DOMAIN doc.json.v
  /\ OptionalKeys \cup {"title"} \subseteq DOMAIN doc.json.v

\* the top-level fields of the document that violate a rule of their own: a
\* missing or blank title, a missing questionnaire, a string that is no
\* member of AllowedPermissionStatus, a repeatInterval that is no number
TopLevelViolations ==
  {f \in {"title", "questionnaire", "allowedPermissionStatus", "repeatInterval"} :
     CASE f = "title" ->
            \/ "title" \notin DOMAIN doc.json.v
            \/ doc.json.v["title"].t = "str" /\ AllWhitespace(doc.json.v["title"].v)
       [] f = "questionnaire" -> "questionnaire" \notin DOMAIN doc.json.v
       [] f = "allowedPermissionStatus" ->
            /\ DictGet(doc.json.v, f).t = "str"
            /\ doc.json.v[f] \notin
                 {W("ACTIVE_ONLY"), W("ACTIVE_AND_INVITED"),
                  W("ACTIVE_AND_INVITED_AND_CONTACTS")}
       [] f = "repeatInterval" ->
            DictGet(doc.json.v, f).t = "str" /\ doc.json.v[f] = W("soon")}

\* C16: a document with two or more independent violations in distinct
\* top-level fields is rejected with exactly one (path, message) entry for
\* each of them, not only for the first.
C16_AllTopLevelViolationsReported ==
  Validated /\ IsObject /\ Cardinality(TopLevelViolations) >= 2 =>
    /\ ~vres.valid
    /\ \A f \in TopLevelViolations :
         Cardinality({i \in DOMAIN vres.errs : vres.errs[i].loc = <<f>>}) = 1
    /\ Len(vres.errs) >= Cardinality(TopLevelViolations)

\* a blank title, an unknown permission status and a non-numeric interval
\* have been reported together
C16_Witness ==
  /\ IsObject
  /\ vres.kind = "Validation errors"
  /\ TopLevelViolations = {"title", "allowedPermissionStatus", "repeatInterval"}
  /\ Len(vres.errs) = 3

\* the declared fields whose wire name differs from their internal name
AliasedFields ==
  UNION {{Fields(c)[i] : i \in {j \in DOMAIN Fields(c) :
                                   Fields(c)[j].name # Fields(c)[j].alias}} :
           c \in PopulateByName}

\* the wire name of an input key: the alias when the key is an internal name
CamelCase(key) ==
  IF \E fd \in AliasedFields : fd.name = key
  THEN (CHOOSE fd \in AliasedFields : fd.name = key).alias
  ELSE key

\* the key of object f that is read for the wire name k: k itself when it
\* is there, the internal name otherwise
KeyFor(f, k) ==
  IF k \in DOMAIN f THEN k ELSE CHOOSE key \in DOMAIN f : CamelCase(key) = k

\* the JSON value v with every internal field name replaced by its wire name
RECURSIVE ToWireNames(_)
ToWireNames(v) ==
  CASE v.t = "list" -> List([i \in DOMAIN v.v |-> ToWireNames(v.v[i])])
    [] v.t = "dict" ->
         Dict([k \in {CamelCase(key) : key \in DOMAIN v.v} |->
                 ToWireNames(v.v[KeyFor(v.v, k)])])
    [] OTHER -> v

\* the document uses an internal name somewhere
UsesInternalNames == doc.wellformed /\ ToWireNames(doc.json) # doc.json

\* the outcome of validating the document written with wire names only
WireNamesOutcome ==
  ValidationOutcome(model_validate("SurveyInput", ToWireNames(doc.json)))

\* C17: a document that supplies fields under their internal snake_case names
\* validates exactly when the same document written with the camelCase wire
\* names does, and the two validated documents are equal.
C17_InternalAndWireNamesEquivalent ==
  Validated /\ UsesInternalNames =>
    /\ vres.valid = WireNamesOutcome.valid
    /\ vres.survey = WireNamesOutcome.survey

\* a document naming user_query, subscription_type, descriptive_text and
\* is_mandatory by their internal names has validated, with these fields set
C17_Witness ==
  /\ Validated
  /\ vres.valid
  /\ IsObject
  /\ "user_query" \in DOMAIN doc.json.v
  /\ "subscription_type" \in DOMAIN doc.json.v["user_query"].v["roles"].v[1].v
  /\ vres.survey.v.f["user_query"] # None
  /\ \E x \in DocQuestions : "descriptive_text" \in DOMAIN x.q.v

\* keys that no class declares, neither as a name nor as an alias
UnknownKeys == {"unknownField", "extra"}

\* the JSON value v without its unknown keys, at every depth
RECURSIVE WithoutUnknown(_)
WithoutUnknown(v) ==
  CASE v.t = "list" -> List([i \in DOMAIN v.v |-> WithoutUnknown(v.v[i])])
    [] v.t = "dict" ->
         Dict([k \in DOMAIN v.v \ UnknownKeys |-> WithoutUnknown(v.v[k])])
    [] OTHER -> v

\* the document holds an unknown key somewhere
HasUnknownKeys == doc.wellformed /\ WithoutUnknown(doc.json) # doc.json

\* the outcome of validating the document without its unknown keys
KnownKeysOutcome ==
  ValidationOutcome(model_validate("SurveyInput", WithoutUnknown(doc.json)))

\* C18: unknown keys, at the top level or nested, never change the outcome:
\* the document validates exactly when it does without them, to the same
\* SurveyInput (and fails with the same errors).
C18_UnknownFieldsIgnored ==
  Validated /\ HasUnknownKeys => vres = KnownKeysOutcome

\* a document with an unknown top-level key and an unknown key inside a
\* user-query role has validated
C18_Witness ==
  /\ Validated
  /\ vres.valid
  /\ IsObject
  /\ "unknownField" \in DOMAIN doc.json.v
  /\ "userQuery" \in DOMAIN doc.json.v
  /\ "extra" \in DOMAIN doc.json.v["userQuery"].v["roles"].v[1].v

\* the value at path p of the JSON value v (list indexes written as in
\* error locations), None when the path leads nowhere
RECURSIVE ValueAt(_, _)
ValueAt(v, p) ==
  IF p = <<>> THEN v
  ELSE IF v.t = "dict" /\ Head(p) \in DOMAIN v.v THEN ValueAt(v.v[Head(p)], Tail(p))
  ELSE IF v.t = "list" /\ \E i \in DOMAIN v.v : IndexStr(i - 1) = Head(p)
  THEN ValueAt(v.v[CHOOSE i \in DOMAIN v.v : IndexStr(i - 1) = Head(p)], Tail(p))
  ELSE None

\* the enumerated positions of a document, each with its closed set
EnumPositions ==
  {[path |-> <<"allowedPermissionStatus">>,
    values |-> {"ACTIVE_ONLY", "ACTIVE_AND_INVITED",
                "ACTIVE_AND_INVITED_AND_CONTACTS"}],
   [path |-> <<"userQuery", "roles", "0", "subscriptionType">>,
    values |-> {"RESPONSIBLE", "OBSERVER", "ACCOUNTABLE", "ALL"}],
   [path |-> <<"factSheetQuery", "filter", "facetFilter", "0", "operator">>,
    values |-> {"AND", "OR", "NOR"}],
   [path |-> <<"factSheetQuery", "filter", "facetFilter", "0", "dateFilter", "type">>,
    values |-> {"POINT", "RANGE", "TODAY", "END_OF_MONTH", "END_OF_YEAR",
                "RANGE_STARTS", "RANGE_ENDS"}],
   [path |-> <<"factSheetQuery", "filter", "facetFilter", "0",
               "subscriptionFilter", "type">>,
    values |-> {"RESPONSIBLE", "OBSERVER", "ACCOUNTABLE", "ALL"}]}

\* the document holds a string at enumerated position e
CandidateAt(e) == doc.wellformed /\ ValueAt(doc.json, e.path).t = "str"

\* that string is a member of the closed set of position e
MemberAt(e) == \E x \in e.values : ValueAt(doc.json, e.path) = W(x)

\* C19: a string at an enumerated position (allowedPermissionStatus, a
\* role's subscriptionType, a facet filter's operator, a date filter's or a
\* subscription filter's type) is accepted exactly when it is a member of
\* the closed set of that position; any other string there makes validation
\* of the whole document fail, with an error at that position.
C19_EnumAcceptsExactlyItsMembers ==
  Validated =>
    \A e \in EnumPositions :
      CandidateAt(e) =>
        /\ MemberAt(e) <=> ~ErrorAt(e.path)
        /\ ~MemberAt(e) => ~vres.valid /\ vres.survey = None

\* a member of another enumeration ("ALL" as a date filter type) has been
\* rejected, and the document has not validated
C19_Witness ==
  /\ Validated
  /\ ~vres.valid
  /\ \E e \in EnumPositions :
       /\ Len(e.path) = 6
       /\ e.path[5] = "dateFilter"
       /\ CandidateAt(e)
       /\ ValueAt(doc.json, e.path) = W("ALL")
       /\ ErrorAt(e.path)

\* the options of the questions of the document, at any depth, that are
\* objects with an empty string as id or as label
EmptyNamedOptions ==
  {o \in UNION {{x.q.v["options"].v[i] : i \in DOMAIN x.q.v["options"].v} :
                  x \in {y \in DocQuestions : DictGet(y.q.v, "options").t = "list"}} :
     /\ o.t = "dict"
     /\ \/ DictGet(o.v, "id") = Str(<<>>)
        \/ DictGet(o.v, "label") = Str(<<>>)}

\* C20: a document in which a question has an option whose id is the empty
\* string, or whose label is the empty string, is rejected.
C20_EmptyOptionNamesRejected ==
  Validated /\ EmptyNamedOptions # {} => ~vres.valid

\* the questions of the document whose type is a string other than
\* singlechoice and multiplechoice and that carry no option
OpenTypeQuestions ==
  {x \in DocQuestions :
     /\ x.q.t = "dict"
     /\ DictGet(x.q.v, "type").t = "str"
     /\ x.q.v["type"] \notin {W("singlechoice"), W("multiplechoice")}
     /\ DictGet(x.q.v, "options") \in {None, List(<<>>)}}

\* the type stored in the validated survey for the question at path loc
StoredType(loc) ==
  ValueAt(model_dump(vres.survey, TRUE, TRUE), Append(loc, "type"))

\* C21: the type of a question is an open string: a question whose type is
\* any string other than singlechoice and multiplechoice, known to the
\* schema or not, raises no error for having no options, and its type is
\* stored in the validated survey and written to the wire payload unchanged.
C21_OpenQuestionType ==
  Validated =>
    \A x \in OpenTypeQuestions :
      /\ ~ErrorAt(x.loc)
      /\ ~ErrorAt(Append(x.loc, "options"))
      /\ ~ErrorAt(Append(x.loc, "type"))
      /\ vres.valid => StoredType(x.loc) = x.q.v["type"]
      /\ payload # None => ValueAt(payload, Append(x.loc, "type")) = x.q.v["type"]

\* a question of the unknown type "hologram", without options, and its child
\* of the same type have been validated and written to the payload
C21_Witness ==
  /\ Validated
  /\ vres.valid
  /\ payload # None
  /\ \E x \in OpenTypeQuestions :
       /\ Len(x.loc) = 5
       /\ x.q.v["type"] = W("hologram")
       /\ "options" \notin DOMAIN x.q.v

(***************************************************************************)
(* The endpoints /api/surveys/create and /api/surveys/create-batch.  The   *)
(* request bodies hold validated SurveyInput documents (FastAPI validates  *)
(* the body before the handler runs).                                      *)
(***************************************************************************)
Rep(ch, n) == [i \in 1..n |-> ch]

ValidUrl == [scheme |-> <<"https">>, netloc |-> <<"example.leanix.net">>, path |-> <<>>]
Urls ==
  {ValidUrl,
   [scheme |-> <<>>, netloc |-> <<>>, path |-> <<"not-a-url">>],
   [scheme |-> <<"https">>, netloc |-> <<"example.leanix.net">>, path |-> <<"/">>]}
Tokens == {Rep("t", 21), Rep("t", 9), <<>>}
Configs ==
  {[base_url |-> u, api_token |-> tk] : u \in Urls, tk \in {Rep("t", 21)}}
  \cup {[base_url |-> ValidUrl, api_token |-> tk] : tk \in Tokens}

ApiSurvey ==
  model_validate("SurveyInput",
    Dict([title |-> W("Test Survey"),
          questionnaire |-> SimpleQuestionnaire,
          userQuery |-> OptionalValues["userQuery"]])).val

CreateRequests ==
  {[survey_input |-> ApiSurvey, language |-> W("en"),
    fact_sheet_type |-> W("Application"), due_date |-> d] : d \in DueDates}

MaxBatch == MAX_BATCH_SIZE + 1

ApiInit ==
  /\ PipeIdle
  /\ SvcIdle
  /\ endpoint \in {"create", "create-batch"}
  /\ \E n \in 0..MaxBatch, r \in CreateRequests :
       /\ requests = Rep(r, n)
       /\ transport \in [1..n -> Envs]
       /\ endpoint = "create" => n = 1
  /\ fail_fast \in BOOLEAN
  /\ endpoint = "create" => fail_fast = FALSE
  /\ config \in Configs
  /\ pc = "start"
  /\ index = 0
  /\ results = <<>>
  /\ assembled = <<>>
  /\ sent = <<>>
  /\ response = NoResponse

\* POST /api/surveys/create
CreateSurvey ==
  /\ endpoint = "create"
  /\ pc = "start"
  /\ response' = [k \in DOMAIN NoResponse |->
                    create_survey(requests[1], config, transport[1])[k]]
  /\ sent' = create_survey(requests[1], config, transport[1]).sent
  /\ assembled' = IF validate_config(config) = <<>> THEN <<0>> ELSE <<>>
  /\ pc' = "done"
  /\ UNCHANGED <<endpoint, requests, fail_fast, config, transport, index, results>>
  /\ UNCHANGED <<pipeVars, svcVars>>

\* the size check taken one item too early
BatchStartOffByOne ==
  /\ endpoint = "create-batch"
  /\ pc = "start"
  /\ IF requests = <<>>
     THEN /\ response' = HttpError(400, "Batch requests cannot be empty")
          /\ pc' = "done"
     ELSE IF Len(requests) >= MAX_BATCH_SIZE
     THEN /\ response' = HttpError(422, "Batch size exceeds maximum")
          /\ pc' = "done"
     ELSE IF validate_config(config) # <<>>
     THEN /\ response' = HttpError(422, "Invalid configuration")
          /\ pc' = "done"
     ELSE /\ response' = response
          /\ pc' = "loop"
  /\ UNCHANGED <<endpoint, requests, fail_fast, config, transport, index, results,
                 assembled, sent>>
  /\ UNCHANGED <<pipeVars, svcVars>>

\* POST /api/surveys/create-batch, up to the loop
BatchStart ==
  /\ endpoint = "create-batch"
  /\ pc = "start"
  /\ IF requests = <<>>
     THEN /\ response' = HttpError(400, "Batch requests cannot be empty")
          /\ pc' = "done"
     ELSE IF Len(requests) > MAX_BATCH_SIZE
     THEN /\ response' = HttpError(422, "Batch size exceeds maximum")
          /\ pc' = "done"
     ELSE IF validate_config(config) # <<>>
     THEN /\ response' = HttpError(422, "Invalid configuration")
          /\ pc' = "done"
     ELSE /\ response' = response
          /\ pc' = "loop"
  /\ UNCHANGED <<endpoint, requests, fail_fast, config, transport, index, results,
                 assembled, sent>>
  /\ UNCHANGED <<pipeVars, svcVars>>

\* the result of the loop body at the current index
CurrentItem == BatchItemResult(index, requests[index + 1], transport[index + 1])

\* one iteration of the loop: the item at index, then break or go on
BatchItem ==
  /\ pc = "loop"
  /\ index < Len(requests)
  /\ results' = Append(results, [k \in DOMAIN CurrentItem \ {"sent"} |-> CurrentItem[k]])
  /\ sent' = sent \o CurrentItem.sent
  /\ assembled' = Append(assembled, index)
  /\ IF BreakLoop(CurrentItem, fail_fast)
     THEN pc' = "return" /\ index' = index
     ELSE /\ index' = index + 1
          /\ pc' = IF index + 1 < Len(requests) THEN "loop" ELSE "return"
  /\ UNCHANGED <<endpoint, requests, fail_fast, config, transport, response>>
  /\ UNCHANGED <<pipeVars, svcVars>>

\* after the loop: the summary
BatchReturn ==
  /\ pc = "return"
  /\ response' = BatchResponse(results)
  /\ pc' = "done"
  /\ UNCHANGED <<endpoint, requests, fail_fast, config, transport, index, results,
                 assembled, sent>>
  /\ UNCHANGED <<pipeVars, svcVars>>

ApiNext == CreateSurvey \/ BatchStart \/ BatchItem \/ BatchReturn

ApiSpec == ApiInit /\ [][ApiNext]_vars

(***************************************************************************)
(* GET /api/surveys/{poll_id} and its response cache (api.py).  A request  *)
(* in flight is [pc, config, workspace_id, poll_id, env, fetched,          *)
(* response]: the handler's position, its parameters, the behaviour of the *)
(* transport for it, the response get_poll returned and the handler's      *)
(* answer [status_code, detail, body].  The handler gives up control at    *)
(* its awaits, so a request advances in three steps: up to the cache       *)
(* lookup, client.get_poll, and cache.set with the return.                 *)
(***************************************************************************)
\* CACHE_TTL_SECONDS = int(os.getenv("CACHE_TTL_SECONDS", "300")): the
\* environment sets it; the modelled deployment runs with CACHE_TTL_SECONDS=2
CACHE_TTL_SECONDS == 2

\* the last instant of the modelled clock
MaxNow == 3

\* the key made of the poll alone
make_cache_key_poll_only(workspace_id, poll_id) == <<":", poll_id>>

\* f"{workspace_id}:{poll_id}"
make_cache_key(workspace_id, poll_id) == <<workspace_id, ":", poll_id>>

\* TTLCache(maxsize=max_items, ttl=ttl_seconds): the entries are
\* key -> [value, expires].  A lookup misses an entry whose time is up; a
\* store first drops the entries whose time is up.  (CACHE_MAX_ITEMS is
\* never reached by the keys of the modelled requests.)
TTLCacheGet(c, key, t) ==
  IF key \in DOMAIN c /\ t < c[key].expires THEN c[key].value ELSE None

TTLCacheSet(c, key, value, t) ==
  [k \in {j \in DOMAIN c : t < c[j].expires} \cup {key} |->
     IF k # key THEN c[k]
     ELSE [value |-> value, expires |-> t + CACHE_TTL_SECONDS]]

\* LeanIXClient.get_poll on a new client: the token exchange, then the GET;
\* sent lists the requests the transport was handed
get_poll(env) ==
  IF env.auth # "ok"
  THEN Raise("HTTPException", HTTP_401_UNAUTHORIZED) @@ [sent |-> <<"token">>]
  ELSE CASE env.get = "ok" -> Return(env.response) @@ [sent |-> <<"token", "get">>]
         [] env.get = "status_error" ->
              Raise("HTTPException", env.code) @@ [sent |-> <<"token", "get">>]
         [] env.get = "request_error" ->
              Raise("HTTPException", HTTP_503_SERVICE_UNAVAILABLE)
                @@ [sent |-> <<"token", "get">>]

NoGetResponse == [status_code |-> 0, detail |-> "", body |-> None]

\* raise HTTPException(status_code=code, detail=detail)
GetError(code, detail) == [status_code |-> code, detail |-> detail, body |-> None]

\* return response
GetAnswer(body) == [status_code |-> 200, detail |-> "", body |-> body]

\* the detail of the HTTPException get_poll raises with the status code
GetPollDetail(code) ==
  IF code = HTTP_401_UNAUTHORIZED THEN "Failed to authenticate with LeanIX"
  ELSE IF code = HTTP_503_SERVICE_UNAVAILABLE THEN "Failed to connect to LeanIX"
  ELSE "Poll not found or access denied"

\* cache_key = make_cache_key(config.workspace_id, poll_id)
CacheKey(g) == make_cache_key(g.workspace_id, g.poll_id)

\* cached_response = await cache.get(cache_key) is not None
CacheHit(g) ==
  /\ CACHE_ENABLED
  /\ TTLCacheGet(poll_cache, CacheKey(g), now) # None

\* the configuration check left out
GetSurveyStartUnchecked(p) ==
  /\ p \in DOMAIN gets
  /\ gets[p].pc = "start"
  /\ IF CacheHit(gets[p])
     THEN gets' = [gets EXCEPT ![p].pc = "done",
                     ![p].response =
                        GetAnswer(TTLCacheGet(poll_cache, CacheKey(gets[p]), now))]
     ELSE gets' = [gets EXCEPT ![p].pc = "fetch"]
  /\ cache_log' = IF CACHE_ENABLED
                  THEN Append(cache_log, [op |-> "get", by |-> p,
                                          key |-> CacheKey(gets[p]), value |-> None])
                  ELSE cache_log
  /\ UNCHANGED <<CACHE_ENABLED, poll_cache, now, transport_log>>
  /\ UNCHANGED <<pipeVars, apiVars, clientVars, uiVars, concVars>>

\* get_survey up to the cache lookup: the configuration check, then the
\* cached response when there is one
GetSurveyStart(p) ==
  /\ p \in DOMAIN gets
  /\ gets[p].pc = "start"
  /\ IF validate_config(gets[p].config) # <<>>
     THEN /\ gets' = [gets EXCEPT ![p].pc = "done",
                        ![p].response = GetError(422, "Invalid configuration")]
          /\ cache_log' = cache_log
     ELSE /\ IF CacheHit(gets[p])
             THEN gets' = [gets EXCEPT ![p].pc = "done",
                             ![p].response =
                                GetAnswer(TTLCacheGet(poll_cache, CacheKey(gets[p]), now))]
             ELSE gets' = [gets EXCEPT ![p].pc = "fetch"]
          /\ cache_log' = IF CACHE_ENABLED
                          THEN Append(cache_log, [op |-> "get", by |-> p,
                                                  key |-> CacheKey(gets[p]),
                                                  value |-> None])
                          ELSE cache_log
  /\ UNCHANGED <<CACHE_ENABLED, poll_cache, now, transport_log>>
  /\ UNCHANGED <<pipeVars, apiVars, clientVars, uiVars, concVars>>

\* response = await client.get_poll(poll_id); without a cache the handler
\* returns it at once
GetSurveyFetch(p) ==
  /\ p \in DOMAIN gets
  /\ gets[p].pc = "fetch"
  /\ transport_log' = transport_log
       \o [i \in DOMAIN get_poll(gets[p].env).sent |->
             [by |-> p, request |-> get_poll(gets[p].env).sent[i],
              key |-> CacheKey(gets[p])]]
  /\ IF get_poll(gets[p].env).exc # ""
     THEN gets' = [gets EXCEPT ![p].pc = "done",
                     ![p].response =
                        GetError(get_poll(gets[p].env).status,
                                 GetPollDetail(get_poll(gets[p].env).status))]
     ELSE IF CACHE_ENABLED
     THEN gets' = [gets EXCEPT ![p].pc = "store",
                     ![p].fetched = get_poll(gets[p].env).val]
     ELSE gets' = [gets EXCEPT ![p].pc = "done",
                     ![p].fetched = get_poll(gets[p].env).val,
                     ![p].response = GetAnswer(get_poll(gets[p].env).val)]
  /\ UNCHANGED <<CACHE_ENABLED, poll_cache, now, cache_log>>
  /\ UNCHANGED <<pipeVars, apiVars, clientVars, uiVars, concVars>>

\* await cache.set(cache_key, response); return response
GetSurveyStore(p) ==
  /\ p \in DOMAIN gets
  /\ gets[p].pc = "store"
  /\ poll_cache' = TTLCacheSet(poll_cache, CacheKey(gets[p]), gets[p].fetched, now)
  /\ cache_log' = Append(cache_log, [op |-> "set", by |-> p,
                                     key |-> CacheKey(gets[p]),
                                     value |-> gets[p].fetched])
  /\ gets' = [gets EXCEPT ![p].pc = "done",
                ![p].response = GetAnswer(gets[p].fetched)]
  /\ UNCHANGED <<CACHE_ENABLED, now, transport_log>>
  /\ UNCHANGED <<pipeVars, apiVars, clientVars, uiVars, concVars>>

\* time passes while requests are in flight
Tick ==
  /\ gets # <<>>
  /\ now < MaxNow
  /\ now' = now + 1
  /\ UNCHANGED <<CACHE_ENABLED, poll_cache, gets, transport_log, cache_log>>
  /\ UNCHANGED <<pipeVars, apiVars, clientVars, uiVars, concVars>>

Workspaces == {"ws-1", "ws-2"}
PollIds == {"poll-1", "poll-2"}

\* the poll LeanIX returns to request p
PollBody(p) == Dict([status |-> W("OK"), data |-> Dict([title |-> W(p)])])

GetEnvs(p) ==
  {[auth |-> "fail", get |-> "ok", code |-> 0, response |-> None],
   [auth |-> "ok", get |-> "ok", code |-> 0, response |-> PollBody(p)],
   [auth |-> "ok", get |-> "ok", code |-> 0, response |-> Dict(EmptyObj)],
   [auth |-> "ok", get |-> "status_error", code |-> 404, response |-> None],
   [auth |-> "ok", get |-> "request_error", code |-> 0, response |-> None]}

\* the first request asks for poll-1 of ws-1, the second for any poll
GetRequests(p) ==
  {[pc |-> "start", config |-> c, workspace_id |-> w, poll_id |-> q, env |-> e,
    fetched |-> None, response |-> NoGetResponse] :
     c \in Configs,
     w \in IF p = 1 THEN {"ws-1"} ELSE Workspaces,
     q \in IF p = 1 THEN {"poll-1"} ELSE PollIds,
     e \in GetEnvs(IF p = 1 THEN "first" ELSE "second")}

GetInit ==
  /\ PipeIdle
  /\ ApiIdle
  /\ ClientIdle
  /\ UiIdle
  /\ ConcIdle
  /\ CACHE_ENABLED \in BOOLEAN
  /\ poll_cache = <<>>
  /\ now = 0
  /\ gets \in {<<first, second>> : first \in GetRequests(1), second \in GetRequests(2)}
  /\ transport_log = <<>>
  /\ cache_log = <<>>

GetNext ==
  \/ \E p \in 1..2 : GetSurveyStart(p) \/ GetSurveyFetch(p) \/ GetSurveyStore(p)
  \/ Tick

\* the service: a create or create-batch request, or two requests for polls
ServiceSpec == (ApiInit \/ GetInit) /\ [][ApiNext \/ GetNext]_vars

\* await client.create_poll(poll_data), its payload a JSON document
ClientCreatePoll ==
  /\ \E tenv \in TokenEnvs, penv \in {"ok", "request_error"} :
       /\ client_call' = PollRequest("create_poll", client, clock, tenv, penv)
       /\ client' = PollRequest("create_poll", client, clock, tenv, penv).after
  /\ UNCHANGED <<clock, getVars>>
  /\ UNCHANGED <<pipeVars, apiVars, uiVars, concVars>>

\* await client.get_poll(poll_id)
ClientGetPoll ==
  /\ \E tenv \in TokenEnvs, penv \in {"ok", "request_error"} :
       /\ client_call' = PollRequest("get_poll", client, clock, tenv, penv)
       /\ client' = PollRequest("get_poll", client, clock, tenv, penv).after
  /\ UNCHANGED <<clock, getVars>>
  /\ UNCHANGED <<pipeVars, apiVars, uiVars, concVars>>

\* time passes between two requests of the client
Elapse ==
  /\ clock + TimeStep <= MaxClock
  /\ clock' = clock + TimeStep
  /\ UNCHANGED <<client, client_call, getVars>>
  /\ UNCHANGED <<pipeVars, apiVars, uiVars, concVars>>

\* LeanIXClient(config, http_client)
ClientInit ==
  /\ PipeIdle
  /\ ApiIdle
  /\ GetIdle
  /\ ClientIdle
  /\ UiIdle
  /\ ConcIdle

ClientNext == ClientCreatePoll \/ ClientGetPoll \/ Elapse

ClientSpec == ClientInit /\ [][ClientNext]_vars

\* the texts of the JSON input area: empty, not JSON, two valid surveys and
\* one that fails validation
UiSurvey(title, questionnaire) ==
  [blank |-> FALSE,
   text |-> Text(Dict([title |-> W(title), questionnaire |-> questionnaire]))]
JsonInputs ==
  {[blank |-> TRUE, text |-> Malformed],
   [blank |-> FALSE, text |-> Malformed],
   UiSurvey("First", SimpleQuestionnaire),
   UiSurvey("Second", SimpleQuestionnaire),
   UiSurvey("Third", BadQuestionnaire)}

\* the values of the sidebar
Sidebars ==
  [leanix_url : {<<>>, PlaceholderUrl, <<"acme.leanix.net">>,
                 <<"https://", "acme.leanix.net">>},
   api_token : {<<>>, <<" ">>, Rep("t", 21)},
   workspace_id : {<<>>, <<"w", "s">>, Rep("a", 32), Rep("a", 31)},
   fact_sheet_type : {<<>>, <<"Application">>}]

\* the answers of the backend to a create request: success, poll_id
BackendAnswers ==
  {[success |-> FALSE, poll_id |-> None],
   [success |-> TRUE, poll_id |-> None],
   [success |-> TRUE, poll_id |-> W("poll-123")]}

\* the "Validate JSON" button
UiValidate ==
  /\ \E json_input \in JsonInputs :
       /\ session_state' = ValidateClicked(session_state, json_input)
       /\ ui_event' = [button |-> "validate", json_input |-> json_input]
  /\ UNCHANGED backend_request
  /\ UNCHANGED <<pipeVars, apiVars, getVars, clientVars, concVars>>

\* the "Clear" button
UiClear ==
  /\ session_state' = ClearClicked(session_state)
  /\ ui_event' = [ui_event EXCEPT !.button = "clear"]
  /\ UNCHANGED backend_request
  /\ UNCHANGED <<pipeVars, apiVars, getVars, clientVars, concVars>>

\* the "Create Survey in LeanIX" button: shown when a survey is in the
\* session, enabled when ready_to_create
UiCreate ==
  /\ session_state.survey_input # None
  /\ \E sidebar \in Sidebars, answer \in BackendAnswers :
       /\ ConfigurationIssues(sidebar) = <<>>
       /\ backend_request' =
            [t |-> "request",
             v |-> [survey_input |-> session_state.survey_input, sidebar |-> sidebar]]
       /\ session_state' =
            IF answer.success /\ Truthy(answer.poll_id)
            THEN [session_state EXCEPT !.created_poll_id = answer.poll_id]
            ELSE session_state
  /\ ui_event' = [ui_event EXCEPT !.button = "create"]
  /\ UNCHANGED <<pipeVars, apiVars, getVars, clientVars, concVars>>

UiInit ==
  /\ PipeIdle
  /\ ApiIdle
  /\ GetIdle
  /\ ClientIdle
  /\ UiIdle
  /\ ConcIdle

UiNext == UiValidate \/ UiClear \/ UiCreate

UiSpec == UiInit /\ [][UiNext]_vars

\* the calls each caller makes, the callers, and the texts they validate
MaxCalls == 2
Callers == 1..2
CallerTexts ==
  {Malformed,
   Text(Dict([title |-> W("First"), questionnaire |-> SimpleQuestionnaire])),
   Text(Dict([title |-> W("Second"), questionnaire |-> BadQuestionnaire]))}

\* a caller calls validate_json_string(json_string)
CallValidate(w) ==
  /\ w \in DOMAIN frames
  /\ frames[w].pc \in {"idle", "done"}
  /\ frames[w].calls < MaxCalls
  /\ \E text \in CallerTexts :
       frames' = [frames EXCEPT ![w] =
                    [IdleFrame EXCEPT !.op = "validate", !.pc = "loads",
                       !.calls = frames[w].calls + 1, !.json_string = text]]
  /\ UNCHANGED heap
  /\ UNCHANGED <<pipeVars, apiVars, getVars, clientVars, uiVars>>

\* a caller calls PollCreate.from_survey_input on an object of the heap
CallFromSurveyInput(w) ==
  /\ w \in DOMAIN frames
  /\ frames[w].pc \in {"idle", "done"}
  /\ frames[w].calls < MaxCalls
  /\ \E ref \in DOMAIN heap, due \in DueDates :
       frames' = [frames EXCEPT ![w] =
                    [IdleFrame EXCEPT !.op = "from_survey_input", !.pc = "read",
                       !.calls = frames[w].calls + 1, !.survey_input = ref,
                       !.given = heap[ref], !.language = W("en"),
                       !.fact_sheet_type = W("Application"), !.due_date = due]]
  /\ UNCHANGED heap
  /\ UNCHANGED <<pipeVars, apiVars, getVars, clientVars, uiVars>>

JsonLoads(w) ==
  /\ w \in DOMAIN frames
  /\ frames[w].pc = "loads"
  /\ frames' = [frames EXCEPT ![w] = json_loads_step(frames[w], heap).frame]
  /\ heap' = json_loads_step(frames[w], heap).heap
  /\ UNCHANGED <<pipeVars, apiVars, getVars, clientVars, uiVars>>

ModelValidate(w) ==
  /\ w \in DOMAIN frames
  /\ frames[w].pc = "model_validate"
  /\ frames' = [frames EXCEPT ![w] = model_validate_step(frames[w], heap).frame]
  /\ heap' = model_validate_step(frames[w], heap).heap
  /\ UNCHANGED <<pipeVars, apiVars, getVars, clientVars, uiVars>>

ReadKeywords(w) ==
  /\ w \in DOMAIN frames
  /\ frames[w].pc = "read"
  /\ frames' = [frames EXCEPT ![w] = read_keywords_step(frames[w], heap).frame]
  /\ heap' = read_keywords_step(frames[w], heap).heap
  /\ UNCHANGED <<pipeVars, apiVars, getVars, clientVars, uiVars>>

ConstructPoll(w) ==
  /\ w \in DOMAIN frames
  /\ frames[w].pc = "construct"
  /\ frames' = [frames EXCEPT ![w] = construct_step(frames[w], heap).frame]
  /\ heap' = construct_step(frames[w], heap).heap
  /\ UNCHANGED <<pipeVars, apiVars, getVars, clientVars, uiVars>>

\* two callers and one validated survey
ConcInit ==
  /\ PipeIdle
  /\ ApiIdle
  /\ GetIdle
  /\ ClientIdle
  /\ UiIdle
  /\ heap = <<ApiSurvey>>
  /\ frames = [w \in Callers |-> IdleFrame]

ConcNext ==
  \E w \in Callers :
    \/ CallValidate(w)
    \/ CallFromSurveyInput(w)
    \/ JsonLoads(w)
    \/ ModelValidate(w)
    \/ ReadKeywords(w)
    \/ ConstructPoll(w)

ConcSpec == ConcInit /\ [][ConcNext]_vars

(***************************************************************************)
(* Properties of the endpoints (under ApiSpec).                            *)
(***************************************************************************)
ConfigValid == validate_config(config) = <<>>

\* the transport accepts the submission and answers status OK with data.id
AnswersOk(env) ==
  /\ env.auth = "ok"
  /\ env.post = "ok"
  /\ DictGet(env.response.v, "status") = W("OK")
  /\ "id" \in DOMAIN DictGet(env.response.v, "data").v

\* the transport refuses the submission
Refuses(env) == env.auth # "ok" \/ env.post # "ok"

\* C5, as stated: create_survey for a valid survey, with a valid
\* configuration and a transport that answers status OK and data.id = X,
\* responds with success = true and poll_id = X.
C5_CreateSurveySucceeds ==
  /\ endpoint = "create"
  /\ pc = "done"
  /\ ConfigValid
  /\ requests[1].due_date = None
  /\ AnswersOk(transport[1])
  => /\ response.success
     /\ response.poll_id = transport[1].response.v["data"].v["id"]

\* C6, as stated: a batch of n valid items, 1 <= n <= MAX_BATCH_SIZE, with
\* fail_fast = false gives n results, succeeded = the number of items whose
\* submission succeeded, failed = the number whose submission failed, and
\* success = true when none failed.
C6_BatchCounts ==
  /\ endpoint = "create-batch"
  /\ pc = "done"
  /\ ~fail_fast
  /\ ConfigValid
  /\ Len(requests) \in 1..MAX_BATCH_SIZE
  /\ \A i \in DOMAIN requests :
       /\ requests[i].due_date = None
       /\ AnswersOk(transport[i]) \/ Refuses(transport[i])
  => /\ Len(response.results) = Len(requests)
     /\ response.succeeded =
          Cardinality({i \in DOMAIN requests : AnswersOk(transport[i])})
     /\ response.failed =
          Cardinality({i \in DOMAIN requests : Refuses(transport[i])})
     /\ (\A i \in DOMAIN requests : AnswersOk(transport[i])) => response.success

\* the positions of the failed entries of the results
Failures(rs) == {i \in DOMAIN rs : ~rs[i].success}

\* C7: with fail_fast = true the batch handles its items in index order and
\* stops at the first one that fails: nothing after it is assembled or
\* submitted, the results end with the failed entry (length = its index + 1),
\* every earlier entry succeeded, and the overall success flag is false.
C7_FailFastStopsAtFirstFailure ==
  endpoint = "create-batch" /\ fail_fast =>
    /\ \A i \in DOMAIN results : results[i].index = i - 1
    /\ assembled = [i \in DOMAIN results |-> i - 1]
    /\ Len(sent) <= Len(results)
    /\ Failures(results) # {} =>
         /\ Failures(results) = {Len(results)}
         /\ pc \in {"return", "done"}
         /\ pc = "done" =>
              /\ ~response.success
              /\ Len(response.results) = Len(results)
              /\ ~response.results[Len(results)].success

\* a fail-fast batch of three items has returned after its first failure
C7_Witness ==
  /\ endpoint = "create-batch"
  /\ fail_fast
  /\ pc = "done"
  /\ Len(requests) = 3
  /\ Failures(results) # {}
  /\ Len(response.results) < Len(requests)

\* the transport cannot be reached when create_poll posts: the token
\* exchange succeeds and the POST raises httpx.RequestError
Unreachable(env) == env.auth = "ok" /\ env.post = "request_error"

\* C22, as stated: create_survey keeps the failure classes apart: an invalid
\* configuration is answered 422, a transport failure while reaching LeanIX
\* in create_poll is answered 503, and neither is answered 200.
C22_FailureClassesDistinct ==
  endpoint = "create" /\ pc = "done" =>
    /\ ~ConfigValid => response.status_code = 422
    /\ ConfigValid /\ Unreachable(transport[1]) =>
         response.status_code = HTTP_503_SERVICE_UNAVAILABLE

\* the answer create_survey gives after create_poll ended as in the
\* pipeline's call, and the batch entry for it
ReturnedNonOk ==
  /\ call.exc = ""
  /\ call.val.t = "dict"
  /\ DictGet(call.val.v, "status") # W("OK")

NothingProcessed == assembled = <<>> /\ sent = <<>> /\ results = <<>>

\* C24: create_survey_batch answers an empty batch with 400 and a batch of
\* more than MAX_BATCH_SIZE items with 422, in both cases without assembling
\* or submitting any item; a batch of exactly MAX_BATCH_SIZE items passes the
\* size checks and, with a valid configuration, is processed.
C24_BatchSizeLimits ==
  endpoint = "create-batch" =>
    /\ Len(requests) = 0 \/ Len(requests) > MAX_BATCH_SIZE => NothingProcessed
    /\ pc = "done" /\ Len(requests) = 0 =>
         /\ response.status_code = 400
         /\ response.message = "Batch requests cannot be empty"
    /\ pc = "done" /\ Len(requests) > MAX_BATCH_SIZE =>
         /\ response.status_code = 422
         /\ response.message = "Batch size exceeds maximum"
    /\ pc = "done" /\ Len(requests) = MAX_BATCH_SIZE =>
         /\ response.message \notin {"Batch requests cannot be empty",
                                     "Batch size exceeds maximum"}
         /\ ConfigValid => response.status_code = 200 /\ assembled # <<>>

\* a batch of MAX_BATCH_SIZE items has been processed to its summary
C24_Witness ==
  /\ endpoint = "create-batch"
  /\ pc = "done"
  /\ Len(requests) = MAX_BATCH_SIZE
  /\ response.status_code = 200
  /\ Len(response.results) = MAX_BATCH_SIZE

\* C27: a response returned by create_survey_batch has results[i].index = i
\* at every position i (counted from 0), no more results than requests,
\* succeeded + failed = len(results), success exactly when failed = 0, and a
\* poll_id only in results whose success is true.
C27_BatchResponseConsistent ==
  endpoint = "create-batch" /\ pc = "done" /\ response.status_code = 200 =>
    /\ \A i \in DOMAIN response.results : response.results[i].index = i - 1
    /\ Len(response.results) <= Len(requests)
    /\ response.succeeded + response.failed = Len(response.results)
    /\ response.succeeded =
         Cardinality({i \in DOMAIN response.results : response.results[i].success})
    /\ response.success <=> response.failed = 0
    /\ \A i \in DOMAIN response.results :
         response.results[i].poll_id # None => response.results[i].success

\* a batch of three items has returned its summary with three results
C27_Witness ==
  /\ endpoint = "create-batch"
  /\ pc = "done"
  /\ response.status_code = 200
  /\ Len(response.results) = 3
  /\ response.failed = 3

\* the calls request p made to the transport and to the cache
CallsBy(p) ==
  {i \in DOMAIN transport_log : transport_log[i].by = p}
  \cup {i \in DOMAIN cache_log : cache_log[i].by = p}

\* the answer 422 'Invalid configuration' of create_survey and
\* create_survey_batch, with nothing handed to the transport
RejectedAsInvalid ==
  /\ response.status_code = 422
  /\ response.message = "Invalid configuration"
  /\ sent = <<>>

\* the same answer of get_survey to request p, with no call to the transport
\* or to the cache
GetRejectedAsInvalid(p) ==
  /\ gets[p].response.status_code = 422
  /\ gets[p].response.detail = "Invalid configuration"
  /\ CallsBy(p) = {}

\* C25, as stated: with an invalid configuration, create_survey,
\* create_survey_batch and get_survey each answer 422 'Invalid configuration'
\* and call neither the transport nor the cache.
C25_InvalidConfigRejected ==
  /\ endpoint \in {"create", "create-batch"} /\ pc = "done" /\ ~ConfigValid
       => RejectedAsInvalid
  /\ \A p \in DOMAIN gets :
       gets[p].pc = "done" /\ validate_config(gets[p].config) # <<>>
         => GetRejectedAsInvalid(p)

\* C25, amended: with an invalid configuration, create_survey,
\* create_survey_batch for a batch of 1 to MAX_BATCH_SIZE items, and
\* get_survey each answer 422 'Invalid configuration' and call neither the
\* transport nor the cache; the batch size checks come first and answer an
\* empty or oversized batch themselves.
C25_InvalidConfigRejectedWithinSize ==
  /\ endpoint \in {"create", "create-batch"} /\ ~ConfigValid =>
       /\ NothingProcessed
       /\ pc = "done" /\ Len(requests) \in 1..MAX_BATCH_SIZE => RejectedAsInvalid
  /\ \A p \in DOMAIN gets :
       validate_config(gets[p].config) # <<>> =>
         /\ CallsBy(p) = {}
         /\ gets[p].pc = "done" => GetRejectedAsInvalid(p)

\* a get_survey request with a token of nine characters has been refused
\* while the other request fetched its poll and stored it
C25_Witness ==
  /\ gets # <<>>
  /\ gets[1].pc = "done"
  /\ Len(gets[1].config.api_token) = 9
  /\ gets[1].response.status_code = 422
  /\ gets[2].pc = "done"
  /\ gets[2].response.status_code = 200
  /\ cache_log # <<>>

\* the cache holds an entry for the key whose time is not up
Unexpired(key) == key \in DOMAIN poll_cache /\ now < poll_cache[key].expires

\* the stores logged for the workspace/poll pair of request p, the last of
\* them, and the last store logged under a key
StoresFor(p) ==
  {i \in DOMAIN cache_log :
     /\ cache_log[i].op = "set"
     /\ gets[cache_log[i].by].workspace_id = gets[p].workspace_id
     /\ gets[cache_log[i].by].poll_id = gets[p].poll_id}
LastStoreFor(p) == cache_log[CHOOSE i \in StoresFor(p) : \A j \in StoresFor(p) : j <= i]
StoresUnder(key) ==
  {i \in DOMAIN cache_log : cache_log[i].op = "set" /\ cache_log[i].key = key}

\* request p called the transport
FetchedBy(p) == \E i \in DOMAIN transport_log : transport_log[i].by = p

\* the transport answers the GET of request p with a poll
FetchSucceeds(p) == gets[p].env.auth = "ok" /\ gets[p].env.get = "ok"

\* the step of request p from the start of the handler, with a valid
\* configuration: the cached response without a call to the transport when
\* an unexpired entry exists, and on to the fetch otherwise
LookupStepOk(p) ==
  gets[p].pc = "start" /\ gets'[p].pc # "start"
  /\ validate_config(gets[p].config) = <<>> =>
    IF Unexpired(make_cache_key(gets[p].workspace_id, gets[p].poll_id))
    THEN /\ gets'[p].pc = "done"
         /\ gets'[p].response =
              GetAnswer(poll_cache[make_cache_key(gets[p].workspace_id,
                                                  gets[p].poll_id)].value)
         /\ transport_log' = transport_log
         /\ poll_cache' = poll_cache
    ELSE gets'[p].pc = "fetch"

\* a step that changes the cache is the store of a request whose fetch
\* succeeded, and puts the fetched response under the request's key
StoreStepOk ==
  poll_cache' # poll_cache =>
    \E p \in DOMAIN gets :
      /\ gets[p].pc = "store"
      /\ gets'[p].pc = "done"
      /\ FetchSucceeds(p)
      /\ poll_cache'[make_cache_key(gets[p].workspace_id, gets[p].poll_id)].value
           = gets[p].env.response
      /\ gets'[p].response = GetAnswer(gets[p].env.response)

\* both requests are for the same pair and looked the cache up before
\* either stored
Interleaved ==
  /\ Len(cache_log) >= 2
  /\ cache_log[1].op = "get"
  /\ cache_log[2].op = "get"
  /\ gets[1].workspace_id = gets[2].workspace_id
  /\ gets[1].poll_id = gets[2].poll_id

\* what the log and the answers show in every state
CacheConsistent ==
  /\ \A key \in DOMAIN poll_cache :
       /\ StoresUnder(key) # {}
       /\ poll_cache[key].value =
            cache_log[CHOOSE i \in StoresUnder(key) :
                        \A j \in StoresUnder(key) : j <= i].value
  /\ \A p \in DOMAIN gets :
       /\ gets[p].pc = "done" /\ gets[p].response.status_code = 200 =>
            IF FetchedBy(p)
            THEN FetchSucceeds(p) /\ gets[p].response.body = gets[p].env.response
            ELSE \E i \in StoresFor(p) : cache_log[i].value = gets[p].response.body
       /\ gets[p].pc = "done" /\ gets[p].response.status_code # 200 =>
            \A i \in DOMAIN cache_log : cache_log[i].op = "set" => cache_log[i].by # p
  /\ Interleaved =>
       /\ \A p \in DOMAIN gets : gets[p].pc \in {"store", "done"} => FetchedBy(p)
       /\ StoresFor(1) # {} =>
            /\ make_cache_key(gets[1].workspace_id, gets[1].poll_id) \in DOMAIN poll_cache
            /\ poll_cache[make_cache_key(gets[1].workspace_id, gets[1].poll_id)].value
                 = LastStoreFor(1).value

\* C28: with caching enabled, get_survey answers from the cache, without
\* calling the transport, when an unexpired entry exists for the key of its
\* workspace/poll pair, and fetches otherwise; the response is stored under
\* that key only when the fetch succeeds, and a fetch that raises leaves the
\* cache as it was; a cached answer was stored for the same workspace and
\* poll; and when two requests for the same uncached pair interleave, both
\* fetch and the entry holds the response that was stored last.
C28_CacheBehaviour ==
  /\ [](CACHE_ENABLED => CacheConsistent)
  /\ [][CACHE_ENABLED =>
         /\ \A p \in DOMAIN gets : LookupStepOk(p)
         /\ StoreStepOk]_vars

\* two requests for the same pair both missed, both fetched, the second
\* stored last and the entry holds its response
C28_Witness ==
  /\ CACHE_ENABLED
  /\ Interleaved
  /\ gets[1].pc = "done"
  /\ gets[2].pc = "done"
  /\ Len(cache_log) = 4
  /\ cache_log[3].by = 1
  /\ cache_log[4].by = 2
  /\ gets[2].env.response = PollBody("second")
  /\ poll_cache[make_cache_key("ws-1", "poll-1")].value = PollBody("second")

(***************************************************************************)
(* Properties of LeanIXClient (under ClientSpec).                          *)
(***************************************************************************)
\* the last request exchanged the API token, and handed the transport a
\* poll request
Exchanged ==
  \E i \in DOMAIN client_call.sent : client_call.sent[i].request = "token"
PollSent ==
  \E i \in DOMAIN client_call.sent :
    client_call.sent[i].request \in {"create_poll", "get_poll"}

\* C29, as stated: the client sends a poll request only after it holds an
\* access token, which the request carries; it exchanges the API token
\* exactly when no token is cached or the time is at or past the stored
\* expiry, and a successful exchange stores the time of the exchange plus
\* expires_in minus 60 as the expiry; when the exchange fails, 401 is raised,
\* no poll request is sent, and the cached token and expiry stay as they
\* were.
C29_TokenBeforePollRequest ==
  client_call.method # "" =>
    /\ \A i \in DOMAIN client_call.sent :
         client_call.sent[i].request # "token" =>
           /\ client.access_token # None
           /\ client_call.sent[i].bearer = client.access_token
           /\ i = Len(client_call.sent)
    /\ Exchanged <=>
         \/ client_call.before.access_token = None
         \/ client_call.at >= client_call.before.token_expiry
    /\ Exchanged /\ PollSent =>
         client.token_expiry \in {client_call.at + n - 60 : n \in ExpiresInValues}
    /\ ~Exchanged => client = client_call.before
    /\ Exchanged /\ ~PollSent =>
         /\ client_call.exc = "HTTPException"
         /\ client_call.status = HTTP_401_UNAUTHORIZED
         /\ client = client_call.before

(***************************************************************************)
(* Properties of the UI session (under UiSpec).                            *)
(***************************************************************************)
\* the outcome of validating the text the last button found
LastOutcome == validate_json_string(ui_event'.json_input.text)

\* a step of the Validate button on a text that is not blank
ValidateStepOk ==
  ui_event'.button = "validate" /\ ~ui_event'.json_input.blank =>
    IF LastOutcome.valid
    THEN /\ session_state'.validation_result.v.valid
         /\ session_state'.validation_result.v.survey_input = LastOutcome.survey
         /\ session_state'.survey_input = LastOutcome.survey
         /\ LastOutcome.survey # None
    ELSE /\ session_state'.validation_result # None
         /\ ~session_state'.validation_result.v.valid
         /\ session_state'.validation_result.v.survey_input = None
         /\ session_state'.survey_input = session_state.survey_input

\* a step that takes the survey out of the session is a step of Clear
OnlyClearResets ==
  session_state.survey_input # None /\ session_state'.survey_input = None
    => ui_event'.button = "clear"

\* a step that hands a create request to the backend finds a survey in the
\* session, sends that survey, and passes the four checks of the sidebar
CreateStepOk ==
  ui_event'.button = "create" \/ backend_request' # backend_request =>
    /\ session_state.survey_input # None
    /\ backend_request' # None
    /\ backend_request'.v.survey_input = session_state.survey_input
    /\ simple_url_validation(backend_request'.v.sidebar.leanix_url) = ""
    /\ simple_token_validation(backend_request'.v.sidebar.api_token) = ""
    /\ validate_workspace_id_format(backend_request'.v.sidebar.workspace_id) = ""
    /\ backend_request'.v.sidebar.fact_sheet_type # <<>>
    /\ session_state'.survey_input = session_state.survey_input
    /\ session_state'.validation_result = session_state.validation_result

\* C30: in the UI session, a successful validation sets validation_result
\* (valid) and survey_input to the newly validated document; a failed one
\* overwrites validation_result with the failure and leaves survey_input as
\* it was; only Clear resets survey_input to None; and a create request is
\* issued only when survey_input is not None and the URL, token, workspace
\* UUID and fact sheet type checks all pass.
C30_SessionState ==
  [][ValidateStepOk /\ OnlyClearResets /\ CreateStepOk]_vars

\* the survey "First" was validated, a later validation failed, and the
\* create request went out with "First"
C30_Witness ==
  /\ session_state.survey_input # None
  /\ session_state.survey_input =
       validate_json_string(UiSurvey("First", SimpleQuestionnaire).text).survey
  /\ session_state.validation_result # None
  /\ ~session_state.validation_result.v.valid
  /\ backend_request # None
  /\ backend_request.v.survey_input = session_state.survey_input
  /\ ui_event.button = "create"

(***************************************************************************)
(* Properties of the concurrent callers (under ConcSpec).                  *)
(***************************************************************************)
\* what the call of frame f returns when it runs alone on its arguments
ResultAlone(f) ==
  IF f.op = "validate" THEN validate_json_string(f.json_string)
  ELSE from_survey_input(f.given, f.language, f.fact_sheet_type, f.due_date)

\* every finished call returned what it returns alone, and the object an
\* assembly was given is as it was when the call began
ReturnedAsAlone ==
  \A w \in DOMAIN frames :
    frames[w].pc = "done" =>
      /\ frames[w].result = ResultAlone(frames[w])
      /\ frames[w].op = "from_survey_input" =>
           heap[frames[w].survey_input] = frames[w].given

\* a step leaves every object of the heap as it is and changes the frame of
\* one caller only
StepIsLocal ==
  /\ \A i \in DOMAIN heap : i \in DOMAIN heap' /\ heap'[i] = heap[i]
  /\ \A w, u \in DOMAIN frames :
       frames'[w] # frames[w] /\ frames'[u] # frames[u] => w = u

\* C26: validation and assembly are re-entrant: however the steps of
\* concurrent validate_json_string and from_survey_input calls interleave,
\* each call returns what it returns when run alone on the same arguments,
\* the SurveyInput an assembly is given is left unchanged, and no step
\* writes anything another call reads.
C26_Reentrant ==
  /\ []ReturnedAsAlone
  /\ [][StepIsLocal]_vars

\* one caller has assembled a poll from the survey the other caller's first
\* call validated, while that caller is in the middle of its second
\* validation
C26_Witness ==
  /\ frames # <<>>
  /\ frames[1].pc = "done"
  /\ frames[1].op = "from_survey_input"
  /\ frames[1].survey_input = 2
  /\ frames[1].result.errs = <<>>
  /\ frames[2].op = "validate"
  /\ frames[2].calls = 2
  /\ frames[2].pc = "model_validate"

====
